---- MODULE Spec2Model ----
(***************************************************************************)
(* Synchronization layer and game coordination core of mafia-game.         *)
(*                                                                         *)
(* The repository holds several generations of the relay store and of the  *)
(* routes in front of it.  The variable `deployment` names the generation  *)
(* a behaviour runs:                                                       *)
(*   "memory"  in-process store (unnamed/part_000:178-266) behind the      *)
(*             synchronous routes (relay/state/route.ts, part_010,         *)
(*             part_012);                                                  *)
(*   "mongo1"  first MongoDB store (unnamed/part_000:1-176) behind the     *)
(*             awaiting routes (part_008, relay/events/route.ts,           *)
(*             relay/inbox/route.ts);                                      *)
(*   "mongo2"  second MongoDB store (unnamed/part_001:209-449) behind      *)
(*             part_009, part_011, relay/inbox/route.ts and                *)
(*             relay/master/route.ts;                                      *)
(*   "cached"  mongoose store with a process-local cache                   *)
(*             (unnamed/part_001:1-207).                                   *)
(* Every `await` on the database is a point where another request may run, *)
(* so a handler is one action per stretch of code between two awaits.      *)
(***************************************************************************)
EXTENDS Integers, Sequences, FiniteSets, TLC

\* ------------------------------------------------------------ bounds ----
MaxVersion == 2
MaxTicks == 2
MaxPublish == 2
MaxTakeover == 2
MaxSubmit == 2
MaxPolls == 2
MaxPull == 2
MaxPush == 2
MaxApi == 2
MaxMinutes == 4
MaxLobby == 28
MaxPlay == 3
MaxPlayMinutes == 2
MaxPosts == 2

\* --------------------------------------------------------- constants ----
MASTER_STALE_MS == 15000

Players == {"p1", "p2", "p3", "p4"}

MIN_PLAYERS == 4

None == << >>
Some(x) == << x >>

\* The coordinator's tab before it is opened.
NoTab == None

VARIABLES
  deployment,   \* generation of store and routes this behaviour runs
  now,          \* Date.now()
  games,        \* the session's document of the games collection / store entry
  inbox,        \* the inbox collection: playerId -> registration and queue
  events,       \* the events collection / game.events, in insertion order
  cache,        \* the process-local cache of the mongoose store
  gdoc,         \* the backend's document of the games collection
  pub,          \* POST /api/relay/state requests in flight
  tko,          \* POST /api/relay/master requests in flight
  sub,          \* POST /api/relay/events requests in flight
  poller,       \* the coordinator's pollEvents loop
  pull,         \* GET inbox requests in flight
  push,         \* POST /api/relay/inbox requests in flight
  api,          \* /api/game requests in flight
  rules,        \* one call of a function of lib/game.ts: its arguments and its result
  tab           \* the coordinator's browser tab: its React state and caches

vars ==
  << deployment, now, games, inbox, events, cache, gdoc, pub, tko, sub, poller, pull, push,
     api, rules, tab >>

\* ------------------------------------------------------------- clock ----
\* Date.now() advances between requests; two steps straddle the staleness
\* threshold so that "exactly MASTER_STALE_MS" and "one more" both occur.
ClockSteps == { MASTER_STALE_MS, MASTER_STALE_MS + 1 }

Tick ==
  /\ \E dt \in ClockSteps :
       /\ now + dt <= MaxTicks * (MASTER_STALE_MS + 1)
       /\ now' = now + dt
  /\ UNCHANGED << deployment, games, inbox, events, cache, pub, tko, sub, poller, pull,
                  push, gdoc, api, rules, tab >>

\* ------------------------------------------------------ session store ----
\* GameState as the relay sees it: the fields the relay routes read or write.
Player(id, alive) == [ id |-> id, alive |-> alive ]

PlayerLists ==
  { << Player("p1", TRUE) >>,
    << Player("p1", FALSE), Player("p2", TRUE) >> }

NoGame == [ exists |-> FALSE, state |-> None, nextEventIndex |-> 0 ]

\* getState: doc?.state
getState(g) == IF g.exists THEN g.state ELSE None

\* setState: updateOne({_id}, {$set: {state}, $setOnInsert: {nextEventIndex: 1}},
\* {upsert: true}); the in-memory getGame creates the entry with nextEventIndex 1.
setState(g, nextState) ==
  [ exists |-> TRUE,
    state |-> Some(nextState),
    nextEventIndex |-> IF g.exists THEN g.nextEventIndex ELSE 1 ]

StoredVersion == IF getState(games) = None THEN -1 ELSE getState(games)[1].version

StoredMaster == IF getState(games) = None THEN "" ELSE getState(games)[1].masterPlayerId

\* ----------------------------------------------------- PublishSnapshot ----
PubIds == 1 .. MaxPublish

Bodies ==
  [ version : 1 .. MaxVersion, masterPlayerId : {"p1", "p2"}, phase : {"LOBBY"},
    players : PlayerLists ]

IdlePub ==
  [ pc |-> "idle", body |-> None, current |-> None, next |-> None,
    ignored |-> FALSE, wrote |-> FALSE, resp |-> None ]

\* `current && body.state.version <= current.version`
PublishIgnoresLt(body, current) ==
  current # None /\ body.version < current[1].version

PublishIgnores(body, current) ==
  current # None /\ body.version <= current[1].version

RECURSIVE IndexOfId(_, _, _)
IndexOfId(ps, id, i) ==
  IF i > Len(ps) THEN 0
  ELSE IF ps[i].id = id THEN i ELSE IndexOfId(ps, id, i + 1)

\* mergePlayers: a Map filled from current, then from incoming; a Map keeps the
\* insertion position of a key whose value is set again.
RECURSIVE MergeInto(_, _, _)
MergeInto(acc, incoming, i) ==
  IF i > Len(incoming) THEN acc
  ELSE LET p == incoming[i]
           k == IndexOfId(acc, p.id, 1)
       IN  MergeInto(IF k = 0 THEN Append(acc, p) ELSE [acc EXCEPT ![k] = p],
                     incoming, i + 1)

mergePlayers(current, incoming) == MergeInto(MergeInto(<< >>, current, 1), incoming, 1)

\* The snapshot the route stores: the body with updatedAt: Date.now(); part_009
\* also merges the players already stored.
NextState(body, current, t) ==
  [ version |-> body.version,
    masterPlayerId |-> body.masterPlayerId,
    phase |-> body.phase,
    players |-> IF deployment = "mongo2" /\ current # None
                THEN mergePlayers(current[1].players, body.players)
                ELSE body.players,
    updatedAt |-> t ]

\* Requests are taken in order of their slot; they finish in any order.
PubMayStart(r) == pub[r].pc = "idle" /\ (IF r = 1 THEN TRUE ELSE pub[r - 1].pc # "idle")

\* relay/state/route.ts POST: getState and setState are synchronous calls on the
\* in-process store, so the whole handler is one step.
PublishSync(r) ==
  /\ deployment = "memory"
  /\ PubMayStart(r)
  /\ \E body \in Bodies :
       LET current == getState(games) IN
       IF PublishIgnores(body, current)
       THEN /\ pub' = [pub EXCEPT ![r] = [ IdlePub EXCEPT !.pc = "done", !.body = Some(body),
                         !.current = current, !.ignored = TRUE, !.resp = current ]]
            /\ UNCHANGED games
       ELSE LET nextState == NextState(body, current, now) IN
            /\ games' = setState(games, nextState)
            /\ pub' = [pub EXCEPT ![r] = [ IdlePub EXCEPT !.pc = "done", !.body = Some(body),
                         !.current = current, !.next = Some(nextState), !.wrote = TRUE,
                         !.resp = Some(nextState) ]]
  /\ UNCHANGED << deployment, now, inbox, events, cache, tko, sub, poller, pull, push,
                  gdoc, api, rules, tab >>

\* part_008 / part_009 POST up to `await setState`: `await getState`, the version
\* comparison, and the construction of nextState with Date.now().
PublishRead(r) ==
  /\ deployment \in {"mongo1", "mongo2"}
  /\ PubMayStart(r)
  /\ \E body \in Bodies :
       LET current == getState(games) IN
       IF PublishIgnores(body, current)
       THEN pub' = [pub EXCEPT ![r] = [ IdlePub EXCEPT !.pc = "done", !.body = Some(body),
                      !.current = current, !.ignored = TRUE, !.resp = current ]]
       ELSE pub' = [pub EXCEPT ![r] = [ IdlePub EXCEPT !.pc = "write", !.body = Some(body),
                      !.current = current, !.next = Some(NextState(body, current, now)) ]]
  /\ UNCHANGED << deployment, now, games, inbox, events, cache, tko, sub, poller, pull,
                  push, gdoc, api, rules, tab >>

\* part_008 / part_009 POST from `await setState` on.
PublishWrite(r) ==
  /\ pub[r].pc = "write"
  /\ games' = setState(games, pub[r].next[1])
  /\ pub' = [pub EXCEPT ![r].pc = "done", ![r].wrote = TRUE, ![r].resp = pub[r].next]
  /\ UNCHANGED << deployment, now, inbox, events, cache, tko, sub, poller, pull, push,
                  gdoc, api, rules, tab >>

Publish == \E r \in PubIds : PublishSync(r) \/ PublishRead(r) \/ PublishWrite(r)

\* --------------------------------------------------- RequestTakeover ----
Tokens == {"t1", "t2"}

Inbox(token, messages) == [ token |-> token, messages |-> messages ]

NoInbox == [ p \in Players |-> None ]

TkoIds == 1 .. MaxTakeover

IdleTko ==
  [ pc |-> "idle", playerId |-> "", current |-> None, t |-> 0,
    matched |-> FALSE, result |-> "", state |-> None ]

TkoMayStart(r) == tko[r].pc = "idle" /\ (IF r = 1 THEN TRUE ELSE tko[r - 1].pc # "idle")

\* master/route.ts:33-44: the token is validated against the inbox registration.
TakeoverAuth(r) ==
  /\ deployment = "mongo2"
  /\ TkoMayStart(r)
  /\ \E p \in Players, token \in Tokens :
       IF inbox[p] = None \/ inbox[p][1].token # token
       THEN tko' = [tko EXCEPT ![r] = [ IdleTko EXCEPT !.pc = "done", !.playerId = p,
                      !.result = "unauthorized" ]]
       ELSE tko' = [tko EXCEPT ![r] = [ IdleTko EXCEPT !.pc = "authed", !.playerId = p ]]
  /\ UNCHANGED << deployment, now, games, inbox, events, cache, pub, sub, poller, pull,
                  push, gdoc, api, rules, tab >>

\* const stale = now - current.updatedAt > MASTER_STALE_MS
Stale(t, current) == t - current.updatedAt > MASTER_STALE_MS

\* master/route.ts:46-69: getState, "already master", and the staleness test on
\* the Date.now() taken here.
TakeoverRead(r) ==
  /\ tko[r].pc = "authed"
  /\ LET current == getState(games) IN
       IF current = None
       THEN tko' = [tko EXCEPT ![r].pc = "done", ![r].result = "not_found"]
       ELSE IF current[1].masterPlayerId = tko[r].playerId
       THEN tko' = [tko EXCEPT ![r].pc = "done", ![r].result = "ok", ![r].current = current,
                                ![r].state = current]
       ELSE IF ~Stale(now, current[1])
       THEN tko' = [tko EXCEPT ![r].pc = "done", ![r].result = "master_active",
                                ![r].current = current]
       ELSE tko' = [tko EXCEPT ![r].pc = "cas", ![r].current = current, ![r].t = now]
  /\ UNCHANGED << deployment, now, games, inbox, events, cache, pub, sub, poller, pull,
                  push, gdoc, api, rules, tab >>

\* The filter of the compare-and-set:
\* { _id, "state.masterPlayerId": current.masterPlayerId, "state.updatedAt": current.updatedAt }
CasMatchesIdOnly(g, current) == getState(g) # None

CasMatches(g, current) ==
  /\ getState(g) # None
  /\ getState(g)[1].masterPlayerId = current.masterPlayerId
  /\ getState(g)[1].updatedAt = current.updatedAt

\* master/route.ts:71-83: one updateOne, atomic on the document.
TakeoverCas(r) ==
  /\ tko[r].pc = "cas"
  /\ IF CasMatches(games, tko[r].current[1])
     THEN /\ games' = [games EXCEPT !.state = Some([ games.state[1] EXCEPT
                         !.masterPlayerId = tko[r].playerId,
                         !.updatedAt = tko[r].t,
                         !.version = @ + 1 ])]
          /\ tko' = [tko EXCEPT ![r].pc = "reply", ![r].matched = TRUE]
     ELSE /\ tko' = [tko EXCEPT ![r].pc = "reply", ![r].matched = FALSE]
          /\ UNCHANGED games
  /\ UNCHANGED << deployment, now, inbox, events, cache, pub, sub, poller, pull, push,
                  gdoc, api, rules, tab >>

\* master/route.ts:85-104: the answer carries the snapshot read after the update.
TakeoverReply(r) ==
  /\ tko[r].pc = "reply"
  /\ LET latest == getState(games) IN
       IF ~tko[r].matched
       THEN tko' = [tko EXCEPT ![r].pc = "done", ![r].result = "takeover_failed",
                      ![r].state = IF latest # None THEN latest ELSE tko[r].current]
       ELSE IF latest = None
       THEN tko' = [tko EXCEPT ![r].pc = "done", ![r].result = "internal_error"]
       ELSE tko' = [tko EXCEPT ![r].pc = "done", ![r].result = "ok", ![r].state = latest]
  /\ UNCHANGED << deployment, now, games, inbox, events, cache, pub, sub, poller, pull,
                  push, gdoc, api, rules, tab >>

Takeover ==
  \E r \in TkoIds : TakeoverAuth(r) \/ TakeoverRead(r) \/ TakeoverCas(r) \/ TakeoverReply(r)

\* ------------------------------------------------------- SubmitEvent ----

EventIds == {"e1", "e2"}

\* RelayEvent: a JOIN carries the joiner's id and token; the other types
\* (ACTION, RITUAL, VOTE) are handled alike by the relay.
EventInputs ==
  [ id : EventIds, type : {"JOIN"}, playerId : {"p1", "p2"}, token : Tokens ]
    \cup [ id : EventIds, type : {"ACTION"}, playerId : {"p1"}, token : {""} ]

\* RelayEventWithIndex: { ...event, index }
WithIndex(e, index) ==
  [ id |-> e.id, type |-> e.type, playerId |-> e.playerId, token |-> e.token,
    index |-> index ]

\* game.eventIds.has(event.id) / findOne({_id: eventKey}) / the unique _id of
\* the events collection
HasEventId(evs, id) == \E i \in 1 .. Len(evs) : evs[i].id = id

SubIds == 1 .. MaxSubmit

IdleSub ==
  [ pc |-> "idle", event |-> None, index |-> 0, seenDoc |-> FALSE, t |-> 0,
    next |-> None, game |-> 0, result |-> "" ]

SubMayStart(r) == sub[r].pc = "idle" /\ (IF r = 1 THEN TRUE ELSE sub[r - 1].pc # "idle")

\* updateOne({_id}, {$set: {token, ...}, $setOnInsert: {messages: []}}, {upsert: true})
UpsertInbox(box, p, token) ==
  [ box EXCEPT ![p] = IF @ = None THEN Some(Inbox(token, << >>))
                      ELSE Some([ @[1] EXCEPT !.token = token ]) ]

\* if (!game.inbox.has(playerId)) game.inbox.set(playerId, { token, messages: [] })
SetInboxIfAbsent(box, p, token) ==
  [ box EXCEPT ![p] = IF @ = None THEN Some(Inbox(token, << >>)) ELSE @ ]

\* part_010 POST over the in-process addEvent: one synchronous call.
SubmitSync(r) ==
  /\ deployment = "memory"
  /\ SubMayStart(r)
  /\ \E e \in EventInputs :
       IF HasEventId(events, e.id)
       THEN /\ sub' = [sub EXCEPT ![r] = [ IdleSub EXCEPT !.pc = "done", !.event = Some(e),
                         !.result = "duplicated" ]]
            /\ UNCHANGED << games, events, inbox, rules, tab >>
       ELSE LET index == IF games.exists THEN games.nextEventIndex ELSE 1 IN
            /\ games' = [ exists |-> TRUE, state |-> getState(games),
                          nextEventIndex |-> index + 1 ]
            /\ events' = Append(events, WithIndex(e, index))
            /\ inbox' = IF e.type = "JOIN" THEN SetInboxIfAbsent(inbox, e.playerId, e.token)
                        ELSE inbox
            /\ sub' = [sub EXCEPT ![r] = [ IdleSub EXCEPT !.pc = "done", !.event = Some(e),
                         !.index = index, !.result = "index" ]]
  /\ UNCHANGED << deployment, now, cache, pub, tko, poller, pull, push, gdoc, api,
                  rules, tab >>

\* The placeholder lobby of relay/events/route.ts:36-63 and part_011:55-82.
Placeholder(p, t) ==
  [ version |-> 0, masterPlayerId |-> p, phase |-> "LOBBY", updatedAt |-> t,
    players |-> << Player(p, TRUE) >> ]

\* relay/events/route.ts and part_011 POST up to the first write: for a JOIN,
\* `await getState` and the decision to create the placeholder.
SubmitBegin(r) ==
  /\ deployment \in {"mongo1", "mongo2"}
  /\ SubMayStart(r)
  /\ \E e \in EventInputs :
       sub' = [sub EXCEPT ![r] = [ IdleSub EXCEPT !.event = Some(e), !.t = now,
                 !.pc = IF e.type = "JOIN" /\ getState(games) = None
                        THEN "placeholder" ELSE "add" ]]
  /\ UNCHANGED << deployment, now, games, inbox, events, cache, pub, tko, poller, pull,
                  push, gdoc, api, rules, tab >>

\* await setState(body.gameId, placeholder)
SubmitPlaceholder(r) ==
  /\ sub[r].pc = "placeholder"
  /\ games' = setState(games, Placeholder(sub[r].event[1].playerId, sub[r].t))
  /\ sub' = [sub EXCEPT ![r].pc = "add"]
  /\ UNCHANGED << deployment, now, inbox, events, cache, pub, tko, poller, pull, push,
                  gdoc, api, rules, tab >>

\* ---- addEvent, first MongoDB store (part_000:62-122)
\* findOne({_id: eventKey}): an event already stored under this id ends the call.
AddFindExisting(r) ==
  /\ deployment = "mongo1"
  /\ sub[r].pc = "add"
  /\ sub' = IF HasEventId(events, sub[r].event[1].id)
            THEN [sub EXCEPT ![r].pc = "done", ![r].result = "duplicated"]
            ELSE [sub EXCEPT ![r].pc = "doc"]
  /\ UNCHANGED << deployment, now, games, inbox, events, cache, pub, tko, poller, pull,
                  push, gdoc, api, rules, tab >>

\* const gameDoc = await games.findOne({_id: gameId})
AddFindGameDoc(r) ==
  /\ sub[r].pc = "doc"
  /\ sub' = [sub EXCEPT ![r].pc = "alloc", ![r].seenDoc = games.exists]
  /\ UNCHANGED << deployment, now, games, inbox, events, cache, pub, tko, poller, pull,
                  push, gdoc, api, rules, tab >>

\* No document seen: index 1 and insertOne({nextEventIndex: 2}), which throws
\* when the document exists by now.  Document seen: findOneAndUpdate $inc with
\* returnDocument "after", whose nextEventIndex is the index.
AddAllocate1(r) ==
  /\ deployment = "mongo1"
  /\ sub[r].pc = "alloc"
  /\ IF ~sub[r].seenDoc
     THEN IF games.exists
          THEN /\ sub' = [sub EXCEPT ![r].pc = "done", ![r].result = "error"]
               /\ UNCHANGED games
          ELSE /\ games' = [ exists |-> TRUE, state |-> None, nextEventIndex |-> 2 ]
               /\ sub' = [sub EXCEPT ![r].pc = "insert", ![r].index = 1]
     ELSE /\ games' = [games EXCEPT !.nextEventIndex = @ + 1]
          /\ sub' = [sub EXCEPT ![r].pc = "insert", ![r].index = games.nextEventIndex + 1]
  /\ UNCHANGED << deployment, now, inbox, events, cache, pub, tko, poller, pull, push,
                  gdoc, api, rules, tab >>

\* events.insertOne({_id: eventKey, ...}): a duplicate key throws and the
\* route answers 500.
AddInsert1(r) ==
  /\ deployment = "mongo1"
  /\ sub[r].pc = "insert"
  /\ LET e == sub[r].event[1] IN
       IF HasEventId(events, e.id)
       THEN /\ sub' = [sub EXCEPT ![r].pc = "done", ![r].result = "error"]
            /\ UNCHANGED events
       ELSE /\ events' = Append(events, WithIndex(e, sub[r].index))
            /\ sub' = IF e.type = "JOIN" THEN [sub EXCEPT ![r].pc = "inbox"]
                      ELSE [sub EXCEPT ![r].pc = "done", ![r].result = "index"]
  /\ UNCHANGED << deployment, now, games, inbox, cache, pub, tko, poller, pull, push,
                  gdoc, api, rules, tab >>

\* The inbox registration of a JOIN, after the event is stored.
AddInbox1(r) ==
  /\ sub[r].pc = "inbox"
  /\ inbox' = UpsertInbox(inbox, sub[r].event[1].playerId, sub[r].event[1].token)
  /\ sub' = [sub EXCEPT ![r].pc = "done", ![r].result = "index"]
  /\ UNCHANGED << deployment, now, games, events, cache, pub, tko, poller, pull, push,
                  gdoc, api, rules, tab >>

\* ---- addEvent, second MongoDB store (part_001:315-372)
\* The inbox registration of a JOIN, before the index is allocated.
AddInbox2(r) ==
  /\ deployment = "mongo2"
  /\ sub[r].pc = "add"
  /\ sub[r].event[1].type = "JOIN"
  /\ inbox' = UpsertInbox(inbox, sub[r].event[1].playerId, sub[r].event[1].token)
  /\ sub' = [sub EXCEPT ![r].pc = "alloc"]
  /\ UNCHANGED << deployment, now, games, events, cache, pub, tko, poller, pull, push,
                  gdoc, api, rules, tab >>

\* findOneAndUpdate({_id}, {$inc: {nextEventIndex: 1}, ...}, {upsert: true,
\* returnDocument: "before"}); index = before?.nextEventIndex ?? 1.  The update
\* is taken as its comment states it: one atomic allocation, a fresh document
\* leaving nextEventIndex at 2.
AddAllocate2(r) ==
  /\ deployment = "mongo2"
  /\ \/ sub[r].pc = "alloc"
     \/ sub[r].pc = "add" /\ sub[r].event[1].type # "JOIN"
  /\ LET index == IF games.exists THEN games.nextEventIndex ELSE 1 IN
       /\ games' = [ exists |-> TRUE, state |-> getState(games),
                     nextEventIndex |-> index + 1 ]
       /\ sub' = [sub EXCEPT ![r].pc = "insert", ![r].index = index]
  /\ UNCHANGED << deployment, now, inbox, events, cache, pub, tko, poller, pull, push,
                  gdoc, api, rules, tab >>

\* insertOne in try/catch: E11000 makes addEvent return null (duplicated).
AddInsert2(r) ==
  /\ deployment = "mongo2"
  /\ sub[r].pc = "insert"
  /\ LET e == sub[r].event[1] IN
       IF HasEventId(events, e.id)
       THEN /\ sub' = [sub EXCEPT ![r].pc = "done", ![r].result = "duplicated"]
            /\ UNCHANGED events
       ELSE /\ events' = Append(events, WithIndex(e, sub[r].index))
            /\ sub' = IF e.type = "JOIN" THEN [sub EXCEPT ![r].pc = "lobby"]
                      ELSE [sub EXCEPT ![r].pc = "done", ![r].result = "index"]
  /\ UNCHANGED << deployment, now, games, inbox, cache, pub, tko, poller, pull, push,
                  gdoc, api, rules, tab >>

\* part_011:94-115: after a JOIN is stored, `await getState`; in LOBBY a joiner
\* not yet listed is appended to the players with version + 1.
JoinLobbyRead(r) ==
  /\ sub[r].pc = "lobby"
  /\ LET current == getState(games)
         p == sub[r].event[1].playerId
     IN  IF current # None /\ current[1].phase = "LOBBY"
              /\ IndexOfId(current[1].players, p, 1) = 0
         THEN sub' = [sub EXCEPT ![r].pc = "lobbyWrite",
                        ![r].next = Some([ current[1] EXCEPT
                                      !.players = Append(@, Player(p, TRUE)),
                                      !.version = @ + 1,
                                      !.updatedAt = now ])]
         ELSE sub' = [sub EXCEPT ![r].pc = "done", ![r].result = "index"]
  /\ UNCHANGED << deployment, now, games, inbox, events, cache, pub, tko, poller, pull,
                  push, gdoc, api, rules, tab >>

\* part_011:116: await setState(body.gameId, next)
JoinLobbyWrite(r) ==
  /\ sub[r].pc = "lobbyWrite"
  /\ games' = setState(games, sub[r].next[1])
  /\ sub' = [sub EXCEPT ![r].pc = "done", ![r].result = "index"]
  /\ UNCHANGED << deployment, now, inbox, events, cache, pub, tko, poller, pull, push,
                  gdoc, api, rules, tab >>

\* ---- addEvent, mongoose store with the process-local cache (part_001:99-154)
\* A CachedGame object; `cache.cur` is the object the Map holds for the session
\* (0: none) and `cache.heap[r]` the object request r created or hydrated.
CachedGame(evs, nextEventIndex) ==
  [ events |-> evs, nextEventIndex |-> nextEventIndex, inbox |-> NoInbox ]

NoCache == [ cur |-> 0, heap |-> [ r \in SubIds |-> CachedGame(<< >>, 1) ] ]

\* Submissions to the cached store: events other than JOIN.
EventInputsCached == { e \in EventInputs : e.type # "JOIN" }

\* getGame, cache hit: `if (cache.has(gameId)) return cache.get(gameId)`.
CachedGetGame(r) ==
  /\ deployment = "cached"
  /\ SubMayStart(r)
  /\ \E e \in EventInputsCached :
       sub' = [sub EXCEPT ![r] = [ IdleSub EXCEPT !.event = Some(e), !.game = cache.cur,
                 !.pc = IF cache.cur # 0 THEN "have" ELSE "find" ]]
  /\ UNCHANGED << deployment, now, games, inbox, events, cache, pub, tko, poller, pull,
                  push, gdoc, api, rules, tab >>

\* getGame, cache miss: after `await GameModel.findOne`, a document found is
\* hydrated into a new object and put in the cache (part_001:33-56); none found
\* makes addEvent create an empty object and put it in the cache (103-110).
CachedFind(r) ==
  /\ sub[r].pc = "find"
  /\ cache' = [ cur |-> r,
                heap |-> [ cache.heap EXCEPT ![r] =
                             IF games.exists
                             THEN CachedGame(events, IF games.nextEventIndex = 0 THEN 1
                                                     ELSE games.nextEventIndex)
                             ELSE CachedGame(<< >>, 1) ] ]
  /\ sub' = [sub EXCEPT ![r].game = r, ![r].pc = IF games.exists THEN "have" ELSE "save"]
  /\ UNCHANGED << deployment, now, games, inbox, events, pub, tko, poller, pull, push,
                  gdoc, api, rules, tab >>

\* await new GameModel({gameId, ..., nextEventIndex: 1}).save(): gameId is
\* unique in the schema (models.ts:17), so a second save throws.
CachedSave(r) ==
  /\ sub[r].pc = "save"
  /\ IF games.exists
     THEN /\ sub' = [sub EXCEPT ![r].pc = "done", ![r].result = "error"]
          /\ UNCHANGED games
     ELSE /\ games' = [ exists |-> TRUE, state |-> None, nextEventIndex |-> 1 ]
          /\ sub' = [sub EXCEPT ![r].pc = "have"]
  /\ UNCHANGED << deployment, now, inbox, events, cache, pub, tko, poller, pull, push,
                  gdoc, api, rules, tab >>

\* part_001:123-150 on the object the request holds: the duplicate test,
\* `index = game.nextEventIndex++`, the push, and the update query built from
\* the incremented counter.
CachedAdd(r) ==
  /\ sub[r].pc = "have"
  /\ LET g == cache.heap[sub[r].game]
         e == sub[r].event[1]
     IN  IF HasEventId(g.events, e.id)
         THEN /\ sub' = [sub EXCEPT ![r].pc = "done", ![r].result = "duplicated"]
              /\ UNCHANGED cache
         ELSE /\ cache' = [cache EXCEPT !.heap[sub[r].game] =
                             [ events |-> Append(g.events, WithIndex(e, g.nextEventIndex)),
                               nextEventIndex |-> g.nextEventIndex + 1,
                               inbox |-> IF e.type = "JOIN"
                                         THEN SetInboxIfAbsent(g.inbox, e.playerId, e.token)
                                         ELSE g.inbox ]]
              /\ sub' = [sub EXCEPT ![r].pc = "persist", ![r].index = g.nextEventIndex]
  /\ UNCHANGED << deployment, now, games, inbox, events, pub, tko, poller, pull, push,
                  gdoc, api, rules, tab >>

\* persistGame: updateOne({gameId}, {$push: {events, eventIds}, $set:
\* {nextEventIndex}}, {upsert: true}).
CachedPersist(r) ==
  /\ sub[r].pc = "persist"
  /\ events' = Append(events, WithIndex(sub[r].event[1], sub[r].index))
  /\ games' = [ exists |-> TRUE, state |-> getState(games),
                nextEventIndex |-> sub[r].index + 1 ]
  /\ inbox' = IF sub[r].event[1].type = "JOIN"
              THEN [inbox EXCEPT ![sub[r].event[1].playerId] =
                      Some(Inbox(sub[r].event[1].token, << >>))]
              ELSE inbox
  /\ sub' = [sub EXCEPT ![r].pc = "done", ![r].result = "index"]
  /\ UNCHANGED << deployment, now, cache, pub, tko, poller, pull, push, gdoc, api,
                  rules, tab >>

\* ------------------------------------------------------- ListEventsAfter ----
RECURSIVE InsertByIndex(_, _, _)
InsertByIndex(sorted, e, i) ==
  IF i > Len(sorted) THEN Append(sorted, e)
  ELSE IF e.index < sorted[i].index
       THEN SubSeq(sorted, 1, i - 1) \o << e >> \o SubSeq(sorted, i, Len(sorted))
       ELSE InsertByIndex(sorted, e, i + 1)

\* .sort({ index: 1 })
RECURSIVE SortByIndex(_, _, _)
SortByIndex(evs, i, acc) ==
  IF i > Len(evs) THEN acc ELSE SortByIndex(evs, i + 1, InsertByIndex(acc, evs[i], 1))

IsAfterOrAt(e, afterIndex) == e.index >= afterIndex

\* index: { $gt: afterIndex } / event.index > afterIndex
IsAfter(e, afterIndex) == e.index > afterIndex

\* getEvents: the MongoDB stores filter and sort by index; the in-process store
\* filters game.events, which is kept in the order of the pushes.
getEvents(evs, afterIndex) ==
  LET found == SelectSeq(evs, LAMBDA e : IsAfter(e, afterIndex)) IN
  IF deployment = "memory" THEN found ELSE SortByIndex(found, 1, << >>)

PollIds == 1 .. MaxPolls

IdlePoll == [ pc |-> "idle", after |-> 0, result |-> << >> ]

NoPoller == [ cursor |-> 0, received |-> {}, req |-> [ q \in PollIds |-> IdlePoll ] ]

PollMayStart(q) ==
  poller.req[q].pc = "idle" /\ (IF q = 1 THEN TRUE ELSE poller.req[q - 1].pc # "idle")

\* page.tsx:589-592 with GET /api/relay/events: the request carries the cursor
\* of the moment it is sent, and the store answers getEvents.
PollFetch(q) ==
  /\ deployment \in {"memory", "mongo1", "mongo2"}
  /\ PollMayStart(q)
  /\ poller' = [poller EXCEPT !.req[q] =
                  [ pc |-> "fetched", after |-> poller.cursor,
                    result |-> getEvents(events, poller.cursor) ]]
  /\ UNCHANGED << deployment, now, games, inbox, events, cache, pub, tko, sub, pull,
                  push, gdoc, api, rules, tab >>

RECURSIVE MaxIndex(_, _, _)
MaxIndex(evs, i, cursor) ==
  IF i > Len(evs) THEN cursor
  ELSE MaxIndex(evs, i + 1, IF evs[i].index > cursor THEN evs[i].index ELSE cursor)

\* page.tsx:593-602: every event of the answer moves the cursor to the largest
\* index seen and is handed to handleEvent.
PollHandle(q) ==
  /\ poller.req[q].pc = "fetched"
  /\ LET res == poller.req[q].result IN
       poller' = [poller EXCEPT !.req[q].pc = "handled",
                    !.cursor = MaxIndex(res, 1, @),
                    !.received = @ \cup { res[i].id : i \in 1 .. Len(res) }]
  /\ UNCHANGED << deployment, now, games, inbox, events, cache, pub, tko, sub, pull,
                  push, gdoc, api, rules, tab >>

\* page.tsx:593: `if (!active ...) return` -- the effect was torn down while
\* the request was in flight, and the answer is dropped.
PollDrop(q) ==
  /\ poller.req[q].pc = "fetched"
  /\ poller' = [poller EXCEPT !.req[q].pc = "dropped"]
  /\ UNCHANGED << deployment, now, games, inbox, events, cache, pub, tko, sub, pull,
                  push, gdoc, api, rules, tab >>

SubmitEvent ==
  \E r \in SubIds :
    \/ SubmitSync(r) \/ SubmitBegin(r) \/ SubmitPlaceholder(r)
    \/ AddFindExisting(r) \/ AddFindGameDoc(r) \/ AddAllocate1(r) \/ AddInsert1(r)
    \/ AddInbox1(r)
    \/ AddInbox2(r) \/ AddAllocate2(r) \/ AddInsert2(r)
    \/ JoinLobbyRead(r) \/ JoinLobbyWrite(r)

SubmitCached ==
  \E r \in SubIds :
    CachedGetGame(r) \/ CachedFind(r) \/ CachedSave(r) \/ CachedAdd(r) \/ CachedPersist(r)

PollEvents == \E q \in PollIds : PollFetch(q) \/ PollHandle(q) \/ PollDrop(q)

\* ----------------------------------------------------------- Mailbox ----
\* Secret messages are told apart by a number: the push in slot r sends message
\* r, and the messages queued at the start are Queued.
Queued == << 101, 102 >>

PullIds == 1 .. MaxPull

PushIds == 1 .. MaxPush

IdlePull ==
  [ pc |-> "idle", playerId |-> "", token |-> "", doc |-> None, recovered |-> None,
    cleared |-> FALSE, result |-> "", messages |-> << >> ]

IdlePush ==
  [ pc |-> "idle", playerId |-> "", message |-> 0, recovered |-> None, result |-> "" ]

PullMayStart(r) == pull[r].pc = "idle" /\ (IF r = 1 THEN TRUE ELSE pull[r - 1].pc # "idle")

PushMayStart(r) == push[r].pc = "idle" /\ (IF r = 1 THEN TRUE ELSE push[r - 1].pc # "idle")

TokenRejectedNever(doc, token) == doc = None

\* `!doc || doc.token !== token` / `!inbox || inbox.token !== token`
TokenRejected(doc, token) == doc = None \/ doc[1].token # token

\* part_000:253-266 behind part_012 GET: one synchronous call.
PullSync(r) ==
  /\ deployment = "memory"
  /\ PullMayStart(r)
  /\ \E p \in Players, token \in Tokens :
       IF TokenRejected(inbox[p], token)
       THEN /\ pull' = [pull EXCEPT ![r] = [ IdlePull EXCEPT !.pc = "done", !.playerId = p,
                          !.token = token, !.doc = inbox[p], !.result = "unauthorized" ]]
            /\ UNCHANGED inbox
       ELSE /\ pull' = [pull EXCEPT ![r] = [ IdlePull EXCEPT !.pc = "done", !.playerId = p,
                          !.token = token, !.doc = inbox[p], !.cleared = TRUE,
                          !.result = "messages", !.messages = inbox[p][1].messages ]]
            /\ inbox' = [inbox EXCEPT ![p] = Some([ @[1] EXCEPT !.messages = << >> ])]
  /\ UNCHANGED << deployment, now, games, events, cache, pub, tko, sub, poller, push,
                  gdoc, api, rules, tab >>

\* The stretch after a findOne on the inbox collection: the token test and the
\* copy of the queue (part_000:165-168, part_001:438-441, part_007:32-43).
\* part_007 answers an empty list when there is no inbox, and skips the
\* clearing update when the queue is empty.
AfterFind(r, p, token, doc) ==
  IF doc = None /\ deployment = "backend"
  THEN [ pull[r] EXCEPT !.pc = "done", !.playerId = p, !.token = token, !.doc = doc,
                        !.result = "messages" ]
  ELSE IF TokenRejected(doc, token)
  THEN [ pull[r] EXCEPT !.pc = "done", !.playerId = p, !.token = token, !.doc = doc,
                        !.result = "unauthorized" ]
  ELSE IF deployment = "backend" /\ doc[1].messages = << >>
  THEN [ pull[r] EXCEPT !.pc = "done", !.playerId = p, !.token = token, !.doc = doc,
                        !.result = "messages" ]
  ELSE [ pull[r] EXCEPT !.pc = "clear", !.playerId = p, !.token = token, !.doc = doc,
                        !.messages = doc[1].messages ]

\* pullInboxMessages / GET /api/game/inbox up to the first findOne; the second
\* MongoDB store goes on to ensureInboxFromJoinEvent when it finds no inbox.
PullFind(r) ==
  /\ deployment \in {"mongo1", "mongo2", "backend"}
  /\ PullMayStart(r)
  /\ \E p \in Players, token \in Tokens :
       pull' = [pull EXCEPT ![r] =
                  IF inbox[p] = None /\ deployment = "mongo2"
                  THEN [ IdlePull EXCEPT !.pc = "ensure", !.playerId = p, !.token = token ]
                  ELSE AfterFind(r, p, token, inbox[p]) ]
  /\ UNCHANGED << deployment, now, games, inbox, events, cache, pub, tko, sub, poller,
                  push, gdoc, api, rules, tab >>

\* ensureInboxFromJoinEvent, the query: the JOIN event of the participant stored
\* last (part_001:252-266).
RECURSIVE LatestJoin(_, _, _)
LatestJoin(evs, p, i) ==
  IF i = 0 THEN None
  ELSE IF evs[i].type = "JOIN" /\ evs[i].playerId = p THEN Some(evs[i].token)
  ELSE LatestJoin(evs, p, i - 1)

PullEnsureFind(r) ==
  /\ pull[r].pc = "ensure"
  /\ LET found == LatestJoin(events, pull[r].playerId, Len(events)) IN
       pull' = [pull EXCEPT ![r].recovered = found,
                            ![r].pc = IF found = None THEN "refind" ELSE "upsert"]
  /\ UNCHANGED << deployment, now, games, inbox, events, cache, pub, tko, sub, poller,
                  push, gdoc, api, rules, tab >>

\* ensureInboxFromJoinEvent, the upsert (part_001:268-283).
PullEnsureUpsert(r) ==
  /\ pull[r].pc = "upsert"
  /\ inbox' = UpsertInbox(inbox, pull[r].playerId, pull[r].recovered[1])
  /\ pull' = [pull EXCEPT ![r].pc = "refind"]
  /\ UNCHANGED << deployment, now, games, events, cache, pub, tko, sub, poller, push,
                  gdoc, api, rules, tab >>

\* part_001:434-441: the second findOne.
PullRefind(r) ==
  /\ pull[r].pc = "refind"
  /\ pull' = [pull EXCEPT ![r] = AfterFind(r, pull[r].playerId, pull[r].token,
                                           inbox[pull[r].playerId])]
  /\ UNCHANGED << deployment, now, games, inbox, events, cache, pub, tko, sub, poller,
                  push, gdoc, api, rules, tab >>

\* updateOne({_id}, {$set: {messages: []}}), and the answer with the copy made
\* before it.
PullClear(r) ==
  /\ pull[r].pc = "clear"
  /\ inbox' = [inbox EXCEPT ![pull[r].playerId] =
                 IF @ = None THEN @ ELSE Some([ @[1] EXCEPT !.messages = << >> ])]
  /\ pull' = [pull EXCEPT ![r].pc = "done", ![r].cleared = TRUE, ![r].result = "messages"]
  /\ UNCHANGED << deployment, now, games, events, cache, pub, tko, sub, poller, push,
                  gdoc, api, rules, tab >>

PullMailbox ==
  \E r \in PullIds :
    \/ PullSync(r) \/ PullFind(r) \/ PullEnsureFind(r) \/ PullEnsureUpsert(r)
    \/ PullRefind(r) \/ PullClear(r)

\* pushInboxMessage: updateOne({_id}, {$push: {messages}}) matches a registered
\* inbox; the in-process store pushes onto the registered queue.  Without a
\* registration the first stores answer player_not_registered, the second
\* MongoDB store tries ensureInboxFromJoinEvent.
PushMessage(r) ==
  /\ deployment \in {"memory", "mongo1", "mongo2"}
  /\ PushMayStart(r)
  /\ \E p \in Players :
       LET m == r IN
       IF inbox[p] # None
       THEN /\ inbox' = [inbox EXCEPT ![p] = Some([ @[1] EXCEPT !.messages = Append(@, m) ])]
            /\ push' = [push EXCEPT ![r] = [ IdlePush EXCEPT !.pc = "done", !.playerId = p,
                          !.message = m, !.result = "ok" ]]
       ELSE /\ UNCHANGED inbox
            /\ push' = [push EXCEPT ![r] =
                          IF deployment = "mongo2"
                          THEN [ IdlePush EXCEPT !.pc = "ensure", !.playerId = p, !.message = m ]
                          ELSE [ IdlePush EXCEPT !.pc = "done", !.playerId = p, !.message = m,
                                                 !.result = "player_not_registered" ]]
  /\ UNCHANGED << deployment, now, games, events, cache, pub, tko, sub, poller, pull,
                  gdoc, api, rules, tab >>

PushEnsureFind(r) ==
  /\ push[r].pc = "ensure"
  /\ LET found == LatestJoin(events, push[r].playerId, Len(events)) IN
       push' = IF found = None
               THEN [push EXCEPT ![r].pc = "done", ![r].result = "player_not_registered"]
               ELSE [push EXCEPT ![r].pc = "upsert", ![r].recovered = found]
  /\ UNCHANGED << deployment, now, games, inbox, events, cache, pub, tko, sub, poller,
                  pull, gdoc, api, rules, tab >>

PushEnsureUpsert(r) ==
  /\ push[r].pc = "upsert"
  /\ inbox' = UpsertInbox(inbox, push[r].playerId, push[r].recovered[1])
  /\ push' = [push EXCEPT ![r].pc = "retry"]
  /\ UNCHANGED << deployment, now, games, events, cache, pub, tko, sub, poller, pull,
                  gdoc, api, rules, tab >>

\* part_001:412-419: the second updateOne.
PushRetry(r) ==
  /\ push[r].pc = "retry"
  /\ LET p == push[r].playerId IN
       IF inbox[p] # None
       THEN /\ inbox' = [inbox EXCEPT ![p] =
                           Some([ @[1] EXCEPT !.messages = Append(@, push[r].message) ])]
            /\ push' = [push EXCEPT ![r].pc = "done", ![r].result = "ok"]
       ELSE /\ UNCHANGED inbox
            /\ push' = [push EXCEPT ![r].pc = "done", ![r].result = "player_not_registered"]
  /\ UNCHANGED << deployment, now, games, events, cache, pub, tko, sub, poller, pull,
                  gdoc, api, rules, tab >>

PushMailbox ==
  \E r \in PushIds :
    PushMessage(r) \/ PushEnsureFind(r) \/ PushEnsureUpsert(r) \/ PushRetry(r)

\* ------------------------------------------------ game rules (lib/game.ts) ----
\* Player of the backend: { id, alive, role? }; role "" is an absent role.
GamePlayer(id, alive, role) == [ id |-> id, alive |-> alive, role |-> role ]

\* getAlivePlayers
getAlivePlayers(players) == SelectSeq(players, LAMBDA p : p.alive)

\* getRoleCount
getRoleCount(players, role) ==
  Len(SelectSeq(players, LAMBDA p : p.alive /\ p.role = role))

\* players.find((player) => player.id === id); 0 stands for undefined
FindPlayer(players, id) ==
  IF \E i \in 1 .. Len(players) : players[i].id = id
  THEN CHOOSE i \in 1 .. Len(players) :
         players[i].id = id /\ \A j \in 1 .. i - 1 : players[j].id # id
  ELSE 0

\* calculateMafiaCount with one Mafia for every four players
calculateMafiaCountPerFour(totalPlayers) == totalPlayers \div 4

\* calculateMafiaCount
calculateMafiaCount(totalPlayers) ==
  IF totalPlayers <= 6 THEN 1
  ELSE IF totalPlayers <= 12 THEN 2
  ELSE IF totalPlayers <= 18 THEN 3
  ELSE IF totalPlayers <= 21 THEN 4
  ELSE IF (2 * totalPlayers) \div 11 > 4 THEN (2 * totalPlayers) \div 11 ELSE 4

\* The roles array of assignRoles: mafiaCount MAFIA, one DOCTOR, one DETECTIVE,
\* the rest VILLAGER.
RolesArray(n) ==
  LET m == calculateMafiaCount(n) IN
  [ i \in 1 .. (IF n - m - 2 > 0 THEN n ELSE m + 2) |->
      IF i <= m THEN "MAFIA"
      ELSE IF i = m + 1 THEN "DOCTOR"
      ELSE IF i = m + 2 THEN "DETECTIVE" ELSE "VILLAGER" ]

\* The outcomes the two sorts by Math.random are taken to produce: the players
\* as they are or reversed, and the roles array rotated by any number of places.
ShuffleOrders(n) == { [ i \in 1 .. n |-> i ], [ i \in 1 .. n |-> n + 1 - i ] }

ShuffleDeals(n) == { [ i \in 1 .. n |-> ((i + k - 1) % n) + 1 ] : k \in 0 .. n - 1 }

\* assignRoles for one outcome of the two sorts by Math.random: order is the
\* permutation of the players, deal the permutation of the roles array. DealtBy
\* is the assignment before the zero-Mafia fallback (game.ts:85-88).
DealtBy(players, order, deal) ==
  LET n == Len(players)
      roles == RolesArray(n)
  IN  [ i \in 1 .. n |->
          [ players[order[i]] EXCEPT
              !.role = IF i <= Len(roles) THEN roles[deal[i]] ELSE "VILLAGER" ] ]

AssignedBy(players, order, deal) ==
  LET assigned == DealtBy(players, order, deal)
  IN  IF \E i \in 1 .. Len(players) : assigned[i].role = "MAFIA" THEN assigned
      ELSE [ assigned EXCEPT ![1].role = "MAFIA" ]

\* assignRoles: every outcome of the shuffles.
assignRoles(players) ==
  { AssignedBy(players, order, deal) :
      order \in ShuffleOrders(Len(players)),
      deal \in ShuffleDeals(Len(RolesArray(Len(players)))) }

\* checkWin in which the Mafia win only once they outnumber the others
checkWinOutnumber(players) ==
  LET mafiaCount == getRoleCount(players, "MAFIA")
      villagerCount == Len(SelectSeq(getAlivePlayers(players), LAMBDA p : p.role # "MAFIA"))
  IN  IF mafiaCount = 0 THEN "VILLAGERS"
      ELSE IF mafiaCount > villagerCount THEN "MAFIA" ELSE ""

\* checkWin; "" stands for null
checkWin(players) ==
  LET mafiaCount == getRoleCount(players, "MAFIA")
      villagerCount == Len(SelectSeq(getAlivePlayers(players), LAMBDA p : p.role # "MAFIA"))
  IN  IF mafiaCount = 0 THEN "VILLAGERS"
      ELSE IF mafiaCount >= villagerCount THEN "MAFIA" ELSE ""

\* TopTargets without the maximum: every target that was named at all
TopTargetsNamed(targets) == { targets[i] : i \in 1 .. Len(targets) }

\* The targets that collect the most entries of `targets`, a sequence of ids:
\* the Map of counts, its maximum, and the keys that reach it.
TopTargets(targets) ==
  LET ids == { targets[i] : i \in 1 .. Len(targets) }
      count(id) == Cardinality({ i \in 1 .. Len(targets) : targets[i] = id })
  IN  { id \in ids : \A other \in ids : count(other) <= count(id) }

\* resolveNightActions
resolveNightActions(state, actions) ==
  LET alivePlayers == getAlivePlayers(state.players)
      mafiaActions == SelectSeq(actions, LAMBDA a : a.type = "KILL")
      saves == SelectSeq(actions, LAMBDA a : a.type = "SAVE")
      detectiveActions == SelectSeq(actions, LAMBDA a : a.type = "INSPECT")
      voting == SelectSeq(mafiaActions, LAMBDA a : a.targetPlayerId # "")
      killTargets == [ i \in 1 .. Len(voting) |-> voting[i].targetPlayerId ]
      top == TopTargets(killTargets)
      killTargetId == IF Cardinality(top) = 1 THEN CHOOSE id \in top : TRUE ELSE ""
      savedPlayerId == IF Len(saves) > 0 THEN saves[1].targetPlayerId ELSE ""
      k == FindPlayer(state.players, killTargetId)
      killTargetIsMafia == k # 0 /\ state.players[k].role = "MAFIA"
      shouldKill ==
        IF killTargetId # "" /\ killTargetId # savedPlayerId
        THEN (\E i \in 1 .. Len(alivePlayers) : alivePlayers[i].id = killTargetId)
               /\ ~killTargetIsMafia
        ELSE FALSE
      inspected == SelectSeq(detectiveActions, LAMBDA a :
                     LET t == FindPlayer(state.players, a.targetPlayerId)
                     IN  t # 0 /\ state.players[t].role # "")
  IN  [ updatedPlayers |->
          [ i \in 1 .. Len(state.players) |->
              IF shouldKill /\ state.players[i].id = killTargetId
              THEN [ state.players[i] EXCEPT !.alive = FALSE ] ELSE state.players[i] ],
        killedPlayerId |-> IF shouldKill THEN killTargetId ELSE "",
        savedPlayerId |-> IF savedPlayerId # "" /\ savedPlayerId = killTargetId
                          THEN savedPlayerId ELSE "",
        inspectionResults |->
          [ i \in 1 .. Len(inspected) |->
              [ detectiveId |-> inspected[i].playerId,
                targetPlayerId |-> inspected[i].targetPlayerId,
                targetRole |-> state.players[FindPlayer(state.players,
                                               inspected[i].targetPlayerId)].role ] ] ]

\* resolveVotes that counts the votes of the dead as well
resolveVotesOfAll(state, votes) ==
  LET topTargets == TopTargets([ i \in 1 .. Len(votes) |-> votes[i].targetPlayerId ])
      tie == Cardinality(topTargets) # 1
      eliminatedPlayerId == IF tie THEN "" ELSE CHOOSE id \in topTargets : TRUE
  IN  [ updatedPlayers |->
          [ i \in 1 .. Len(state.players) |->
              IF eliminatedPlayerId # "" /\ state.players[i].id = eliminatedPlayerId
              THEN [ state.players[i] EXCEPT !.alive = FALSE ] ELSE state.players[i] ],
        eliminatedPlayerId |-> eliminatedPlayerId,
        tie |-> tie ]

\* resolveVotes
resolveVotes(state, votes) ==
  LET alivePlayers == getAlivePlayers(state.players)
      validVotes == SelectSeq(votes, LAMBDA v :
                      \E i \in 1 .. Len(alivePlayers) : alivePlayers[i].id = v.voterId)
      topTargets == TopTargets([ i \in 1 .. Len(validVotes) |-> validVotes[i].targetPlayerId ])
      tie == Cardinality(topTargets) # 1
      eliminatedPlayerId == IF tie THEN "" ELSE CHOOSE id \in topTargets : TRUE
  IN  [ updatedPlayers |->
          [ i \in 1 .. Len(state.players) |->
              IF eliminatedPlayerId # "" /\ state.players[i].id = eliminatedPlayerId
              THEN [ state.players[i] EXCEPT !.alive = FALSE ] ELSE state.players[i] ],
        eliminatedPlayerId |-> eliminatedPlayerId,
        tie |-> tie ]

\* ---------------------------------------- calls of the rules (lib/game.ts) ----
\* A call of one function of lib/game.ts: fn names it, players/actions/votes are
\* its arguments, out its result once the call is made.
NoRules == [ fn |-> "", players |-> << >>, actions |-> << >>, votes |-> << >>, out |-> None ]

\* assignRoles throws before it assigns anything (game.ts:67-69).
assignRolesThrows(players) == Len(players) < 4

\* A night's table: three Mafia, the Doctor and two others, of which x and y
\* may have died.
NightCast(xAlive, yAlive) ==
  << GamePlayer("m1", TRUE, "MAFIA"), GamePlayer("m2", TRUE, "MAFIA"),
     GamePlayer("m3", TRUE, "MAFIA"), GamePlayer("d", TRUE, "DOCTOR"),
     GamePlayer("x", xAlive, "VILLAGER"), GamePlayer("y", yAlive, "DETECTIVE") >>

\* "" stands for a player who submits nothing.
KillChoices == {"", "x", "y", "m1"}
SaveChoices == {"", "x", "y"}

NightAction(playerId, type, target) ==
  [ nightNumber |-> 1, playerId |-> playerId, type |-> type, targetPlayerId |-> target ]

\* The actions of a night in which the Mafia target k1, k2, k3 and the Doctor
\* saves s.
NightActions(k1, k2, k3, s) ==
  (IF k1 = "" THEN << >> ELSE << NightAction("m1", "KILL", k1) >>)
  \o (IF k2 = "" THEN << >> ELSE << NightAction("m2", "KILL", k2) >>)
  \o (IF k3 = "" THEN << >> ELSE << NightAction("m3", "KILL", k3) >>)
  \o (IF s = "" THEN << >> ELSE << NightAction("d", "SAVE", s) >>)

\* A vote's table: five players, of which a and e may have died.
VoteCast(aAlive, eAlive) ==
  << GamePlayer("a", aAlive, "MAFIA"), GamePlayer("b", TRUE, "DOCTOR"),
     GamePlayer("c", TRUE, "DETECTIVE"), GamePlayer("d", TRUE, "VILLAGER"),
     GamePlayer("e", eAlive, "VILLAGER") >>

VoteChoices == {"", "a", "b"}

BallotOf(voterId, target) ==
  IF target = "" THEN << >>
  ELSE << [ voterId |-> voterId, targetPlayerId |-> target, phaseId |-> None ] >>

\* The tables checkWin is called with: every role and alive flag of four players.
WinRoles == {"MAFIA", "DOCTOR", "VILLAGER"}

WinCast(roles, alive) ==
  [ i \in 1 .. 4 |-> GamePlayer(<< "a", "b", "c", "d" >>[i], alive[i], roles[i]) ]

\* The lobby assignRoles is called with: n players, alive, without a role.
LobbyOf(n) == [ i \in 1 .. n |-> GamePlayer(i, TRUE, "") ]

\* --------------------------------------------------- backend (/api/game) ----
\* The settings POST /api/game stores (game/route.ts:40-46).
DefaultSettings ==
  [ nightSeconds |-> 60, daySeconds |-> 120, votingSeconds |-> 60,
    autoAdvance |-> TRUE, revealRoleOnDeath |-> FALSE ]

NoDoc == [ exists |-> FALSE, state |-> None, actions |-> << >>, rituals |-> << >>,
           votes |-> << >> ]

\* The phase clock: Date.now() moves by a whole night, or by one millisecond
\* less, so that a timer is met exactly and missed by one.
PhaseClockSteps == { 1000 * DefaultSettings.nightSeconds - 1, 1000 * DefaultSettings.nightSeconds }

TickPhase ==
  /\ \E dt \in PhaseClockSteps :
       /\ now + dt <= MaxMinutes * 60000
       /\ now' = now + dt
  /\ UNCHANGED << deployment, games, inbox, events, cache, gdoc, pub, tko, sub, poller,
                  pull, push, api, rules, tab >>

\* shouldAutoAdvance that does not look at settings.autoAdvance
shouldAutoAdvanceWhateverSet(state, t) ==
  IF state.phase = "NIGHT" THEN t - state.phaseStartedAt >= 1000 * state.settings.nightSeconds
  ELSE IF state.phase = "DAY" THEN t - state.phaseStartedAt >= 1000 * state.settings.daySeconds
  ELSE IF state.phase = "VOTING"
       THEN t - state.phaseStartedAt >= 1000 * state.settings.votingSeconds
  ELSE FALSE

\* shouldAutoAdvance, with Date.now() = t
shouldAutoAdvance(state, t) ==
  IF ~state.settings.autoAdvance THEN FALSE
  ELSE IF state.phase = "NIGHT" THEN t - state.phaseStartedAt >= 1000 * state.settings.nightSeconds
  ELSE IF state.phase = "DAY" THEN t - state.phaseStartedAt >= 1000 * state.settings.daySeconds
  ELSE IF state.phase = "VOTING"
       THEN t - state.phaseStartedAt >= 1000 * state.settings.votingSeconds
  ELSE FALSE

\* allNightActionsSubmitted that asks for no ritual confirmation
allNightActionsSubmittedByRoles(state, actions, rituals) ==
  LET alivePlayers == getAlivePlayers(state.players)
      currentNightActions == SelectSeq(actions, LAMBDA a : a.nightNumber = state.currentNight)
  IN  \A i \in 1 .. Len(alivePlayers) :
        alivePlayers[i].role \in {"MAFIA", "DOCTOR", "DETECTIVE"} =>
          \E j \in 1 .. Len(currentNightActions) :
            currentNightActions[j].playerId = alivePlayers[i].id

\* allNightActionsSubmitted
allNightActionsSubmitted(state, actions, rituals) ==
  LET alivePlayers == getAlivePlayers(state.players)
      currentNightActions == SelectSeq(actions, LAMBDA a : a.nightNumber = state.currentNight)
      currentNightRituals == SelectSeq(rituals, LAMBDA x : x.nightNumber = state.currentNight)
  IN  \A i \in 1 .. Len(alivePlayers) :
        IF alivePlayers[i].role \in {"MAFIA", "DOCTOR", "DETECTIVE"}
        THEN \E j \in 1 .. Len(currentNightActions) :
               currentNightActions[j].playerId = alivePlayers[i].id
        ELSE \E j \in 1 .. Len(currentNightRituals) :
               currentNightRituals[j].playerId = alivePlayers[i].id

\* allVotesSubmitted
allVotesSubmitted(state, votes) ==
  LET alivePlayers == getAlivePlayers(state.players)
      currentPhaseVotes == SelectSeq(votes, LAMBDA v : v.phaseId = state.phaseId)
  IN  \A i \in 1 .. Len(alivePlayers) :
        \E j \in 1 .. Len(currentPhaseVotes) :
          currentPhaseVotes[j].voterId = alivePlayers[i].id

\* The role of a player, when revealRoleOnDeath is set and a player died.
RoleOnDeath(state, id) ==
  IF id # "" /\ state.settings.revealRoleOnDeath /\ FindPlayer(state.players, id) # 0
  THEN state.players[FindPlayer(state.players, id)].role ELSE ""

\* state/route.ts:131-147 and 196-211: a winner ends the game and reveals the
\* roles, id by id.
GameOver(state, winner, t) ==
  [ state EXCEPT !.phase = "GAME_OVER", !.status = "COMPLETED", !.winner = winner,
      !.revealedRoles = { << state.players[i].id, state.players[i].role >> :
                            i \in { j \in 1 .. Len(state.players) : state.players[j].role # "" } },
      !.version = @ + 1, !.updatedAt = t ]

\* processPhaseTransitions, the NIGHT block (state/route.ts:82-151)
NightTransition(state, actions, rituals, t) ==
  IF state.phase = "NIGHT"
       /\ (allNightActionsSubmitted(state, actions, rituals) \/ shouldAutoAdvance(state, t))
  THEN LET resolution ==
             resolveNightActions(state,
               SelectSeq(actions, LAMBDA a : a.nightNumber = state.currentNight))
           day == [ state EXCEPT !.players = resolution.updatedPlayers, !.phase = "DAY",
                      !.phaseStartedAt = t,
                      !.lastResolution =
                         Some([ killedPlayerId |-> resolution.killedPlayerId,
                                savedPlayerId |-> resolution.savedPlayerId,
                                killedRole |-> RoleOnDeath(state, resolution.killedPlayerId) ]),
                      !.version = @ + 1, !.updatedAt = t ]
           winner == checkWin(day.players)
       IN  IF winner # "" THEN GameOver(day, winner, t) ELSE day
  ELSE state

\* The INSPECTION_RESULT messages of the NIGHT block (state/route.ts:110-129)
NightInspections(state, actions, rituals, t) ==
  IF state.phase = "NIGHT"
       /\ (allNightActionsSubmitted(state, actions, rituals) \/ shouldAutoAdvance(state, t))
  THEN resolveNightActions(state,
         SelectSeq(actions, LAMBDA a : a.nightNumber = state.currentNight)).inspectionResults
  ELSE << >>

\* processPhaseTransitions, the DAY block (state/route.ts:154-167); the phaseId
\* `vote-${currentNight}-${Date.now()}` is the pair of its two parts.
DayTransition(state, t) ==
  IF state.phase = "DAY" /\ shouldAutoAdvance(state, t)
  THEN [ state EXCEPT !.phase = "VOTING", !.phaseId = Some(<< state.currentNight, t >>),
           !.phaseStartedAt = t, !.version = @ + 1, !.updatedAt = t ]
  ELSE state

\* processPhaseTransitions, the VOTING block (state/route.ts:170-226)
VotingTransition(state, votes, t) ==
  IF state.phase = "VOTING"
       /\ (allVotesSubmitted(state, votes) \/ shouldAutoAdvance(state, t))
  THEN LET voteResult ==
             resolveVotes(state, SelectSeq(votes, LAMBDA v : v.phaseId = state.phaseId))
           voted == [ state EXCEPT !.players = voteResult.updatedPlayers,
                        !.lastVoteResult =
                           Some([ eliminatedPlayerId |-> voteResult.eliminatedPlayerId,
                                  tie |-> voteResult.tie,
                                  eliminatedRole |->
                                    RoleOnDeath(state, voteResult.eliminatedPlayerId) ]),
                        !.version = @ + 1, !.updatedAt = t ]
           winner == checkWin(voted.players)
       IN  IF winner # "" THEN GameOver(voted, winner, t)
           ELSE [ voted EXCEPT !.phase = "NIGHT", !.currentNight = @ + 1,
                    !.phaseStartedAt = t, !.version = @ + 1, !.updatedAt = t ]
  ELSE state

\* processPhaseTransitions: the three blocks run one after the other on the
\* state each leaves.
processPhaseTransitions(doc, t) ==
  VotingTransition(
    DayTransition(NightTransition(doc.state[1], doc.actions, doc.rituals, t), t),
    doc.votes, t)

ApiIds == 1 .. MaxApi

\* The participants whose requests are followed.
Callers == {"p1", "p2"}

IdleApi ==
  [ pc |-> "idle", kind |-> "", playerId |-> "", next |-> None, result |-> "",
    resp |-> None ]

ApiMayStart(r) == api[r].pc = "idle" /\ (IF r = 1 THEN TRUE ELSE api[r - 1].pc # "idle")

\* $push of one message onto each of the inboxes named by `to`, a sequence of
\* << playerId, message >>; an inbox that does not exist matches nothing.
RECURSIVE PushAll(_, _, _)
PushAll(box, to, i) ==
  IF i > Len(to) THEN box
  ELSE PushAll([ box EXCEPT ![to[i][1]] =
                   IF @ = None THEN @
                   ELSE Some([ @[1] EXCEPT !.messages = Append(@, to[i][2]) ]) ],
               to, i + 1)

\* POST /api/game/start, restart/route.ts:143-149: the token is verified
\* against the inbox of the caller.
StartAuth(r) ==
  /\ deployment = "backend"
  /\ ApiMayStart(r)
  /\ \E p \in Callers, token \in Tokens :
       api' = [api EXCEPT ![r] =
                 IF inbox[p] = None \/ inbox[p][1].token # token
                 THEN [ IdleApi EXCEPT !.pc = "done", !.kind = "start", !.playerId = p,
                                       !.result = "unauthorized" ]
                 ELSE [ IdleApi EXCEPT !.pc = "authed", !.kind = "start", !.playerId = p ]]
  /\ UNCHANGED << deployment, now, games, inbox, events, cache, gdoc, pub, tko, sub,
                  poller, pull, push, rules, tab >>

\* restart/route.ts:151-182: the game is read, the phase and the number of
\* players are tested, and the roles are assigned.
StartRead(r) ==
  /\ api[r].pc = "authed"
  /\ api[r].kind = "start"
  /\ IF ~gdoc.exists
     THEN api' = [api EXCEPT ![r].pc = "done", ![r].result = "game_not_found"]
     ELSE LET state == gdoc.state[1] IN
          IF state.phase # "LOBBY"
          THEN api' = [api EXCEPT ![r].pc = "done", ![r].result = "game_already_started"]
          ELSE IF Len(state.players) < MIN_PLAYERS
          THEN api' = [api EXCEPT ![r].pc = "done", ![r].result = "not_enough_players"]
          ELSE \E playersWithRoles \in assignRoles(state.players) :
                 api' = [api EXCEPT ![r].pc = "write",
                           ![r].next = Some([ state EXCEPT !.players = playersWithRoles,
                                                !.phase = "NIGHT", !.currentNight = 1,
                                                !.phaseStartedAt = now,
                                                !.version = @ + 1, !.updatedAt = now ])]
  /\ UNCHANGED << deployment, now, games, inbox, events, cache, gdoc, pub, tko, sub,
                  poller, pull, push, rules, tab >>

\* restart/route.ts:185-196: $set of the state, with actions, rituals and votes
\* emptied.
StartWrite(r) ==
  /\ api[r].pc = "write"
  /\ gdoc' = [ gdoc EXCEPT !.state = api[r].next, !.actions = << >>, !.rituals = << >>,
                           !.votes = << >> ]
  /\ api' = [api EXCEPT ![r].pc = "send"]
  /\ UNCHANGED << deployment, now, games, inbox, events, cache, pub, tko, sub, poller,
                  pull, push, rules, tab >>

\* restart/route.ts:199-217: a ROLE_ASSIGNMENT goes to the inbox of every player,
\* and the new state is the answer.
StartSend(r) ==
  /\ api[r].pc = "send"
  /\ LET players == api[r].next[1].players IN
       inbox' = PushAll(inbox,
                  [ i \in 1 .. Len(players) |->
                      << players[i].id,
                         [ type |-> "ROLE_ASSIGNMENT", role |-> players[i].role ] >> ], 1)
  /\ api' = [api EXCEPT ![r].pc = "done", ![r].result = "ok", ![r].resp = api[r].next]
  /\ UNCHANGED << deployment, now, games, events, cache, gdoc, pub, tko, sub, poller,
                  pull, push, rules, tab >>

\* GET /api/game/state, state/route.ts:258-264: the game is read and
\* processPhaseTransitions runs on it, sending the inspection results of a
\* night it resolves.  lastSeenAt (266-272) is not part of the snapshot kept here.
GetState(r) ==
  /\ deployment = "backend"
  /\ ApiMayStart(r)
  /\ IF ~gdoc.exists
     THEN /\ api' = [api EXCEPT ![r] = [ IdleApi EXCEPT !.pc = "done", !.kind = "get",
                                                         !.result = "game_not_found" ]]
          /\ UNCHANGED inbox
     ELSE LET state == processPhaseTransitions(gdoc, now)
              found == NightInspections(gdoc.state[1], gdoc.actions, gdoc.rituals, now)
          IN  /\ inbox' = PushAll(inbox,
                            [ i \in 1 .. Len(found) |->
                                << found[i].detectiveId,
                                   [ type |-> "INSPECTION_RESULT",
                                     nightNumber |-> gdoc.state[1].currentNight,
                                     targetPlayerId |-> found[i].targetPlayerId,
                                     targetRole |-> found[i].targetRole ] >> ], 1)
              /\ api' = [api EXCEPT ![r] =
                           IF state # gdoc.state[1]
                           THEN [ IdleApi EXCEPT !.pc = "save", !.kind = "get",
                                                 !.next = Some(state) ]
                           ELSE [ IdleApi EXCEPT !.pc = "done", !.kind = "get",
                                                 !.result = "ok", !.resp = Some(state) ]]
  /\ UNCHANGED << deployment, now, games, events, cache, gdoc, pub, tko, sub, poller,
                  pull, push, rules, tab >>

\* state/route.ts:229-238 and 274: the changed state is saved and answered.
GetStateSave(r) ==
  /\ api[r].pc = "save"
  /\ gdoc' = [ gdoc EXCEPT !.state = api[r].next ]
  /\ api' = [api EXCEPT ![r].pc = "done", ![r].result = "ok", ![r].resp = api[r].next]
  /\ UNCHANGED << deployment, now, games, inbox, events, cache, pub, tko, sub, poller,
                  pull, push, rules, tab >>

StartGame == \E r \in ApiIds : StartAuth(r) \/ StartRead(r) \/ StartWrite(r) \/ StartSend(r)

ReadGame == \E r \in ApiIds : GetState(r) \/ GetStateSave(r)

\* ---- the routes a started game is played through
PlayIds == 1 .. MaxPlay

PlayUnchanged ==
  UNCHANGED << deployment, now, games, inbox, events, cache, gdoc, pub, tko, sub, poller,
               pull, push, rules, tab >>

\* The clock of a started game: as TickPhase, within MaxPlayMinutes.
TickPlay ==
  /\ \E dt \in PhaseClockSteps :
       /\ now + dt <= MaxPlayMinutes * 60000
       /\ now' = now + dt
  /\ UNCHANGED << deployment, games, inbox, events, cache, gdoc, pub, tko, sub, poller,
                  pull, push, api, rules, tab >>

\* The callers whose requests of each kind are followed, each with the token
\* of their inbox; advance and restart do not look at who calls.
PlayCallers(kind) ==
  IF kind \in {"action", "vote"} THEN {"p1", "p2"} ELSE {"p1"}

\* Lines 27-32 of every POST route under /api/game: the token is verified
\* against the inbox of the caller.
PlayAuth(r, kind) ==
  /\ deployment = "backend"
  /\ ApiMayStart(r)
  /\ \E p \in PlayCallers(kind), token \in {"t1"} :
       api' = [api EXCEPT ![r] =
                 IF inbox[p] = None \/ inbox[p][1].token # token
                 THEN [ IdleApi EXCEPT !.pc = "done", !.kind = kind, !.playerId = p,
                                       !.result = "unauthorized" ]
                 ELSE [ IdleApi EXCEPT !.pc = "authed", !.kind = kind, !.playerId = p ]]
  /\ PlayUnchanged

\* state.players.find((p) => p.id === id) finds a player who is alive
AliveIn(state, id) ==
  FindPlayer(state.players, id) # 0 /\ state.players[FindPlayer(state.players, id)].alive

\* The request bodies that are followed.
ActionTypes == {"KILL", "SAVE"}
PlayTargets == {"p1", "p2"}

\* action/route.ts:54-58
validActionType(role) ==
  IF role = "MAFIA" THEN "KILL"
  ELSE IF role = "DOCTOR" THEN "SAVE"
  ELSE IF role = "DETECTIVE" THEN "INSPECT" ELSE ""

\* POST /api/game/action, action/route.ts:35-95: the game is read and the
\* action validated against what was read.
ActionCheck(doc, playerId, actionType, targetPlayerId) ==
  LET state == doc.state[1] IN
  IF state.phase # "NIGHT" THEN "not_night_phase"
  ELSE IF ~AliveIn(state, playerId) THEN "player_not_alive"
  ELSE IF actionType # validActionType(state.players[FindPlayer(state.players, playerId)].role)
  THEN "invalid_action_for_role"
  ELSE IF ~AliveIn(state, targetPlayerId) THEN "invalid_target"
  ELSE IF actionType = "KILL"
          /\ state.players[FindPlayer(state.players, targetPlayerId)].role = "MAFIA"
  THEN "mafia_cannot_kill_mafia"
  ELSE IF \E i \in 1 .. Len(doc.actions) :
            doc.actions[i].playerId = playerId /\ doc.actions[i].nightNumber = state.currentNight
  THEN "action_already_submitted"
  ELSE "ok"

ActionRead(r) ==
  /\ api[r].pc = "authed"
  /\ api[r].kind = "action"
  /\ IF ~gdoc.exists
     THEN api' = [api EXCEPT ![r].pc = "done", ![r].result = "game_not_found"]
     ELSE \E actionType \in ActionTypes, targetPlayerId \in PlayTargets :
            LET check == ActionCheck(gdoc, api[r].playerId, actionType, targetPlayerId) IN
            IF check # "ok"
            THEN api' = [api EXCEPT ![r].pc = "done", ![r].result = check]
            ELSE api' = [api EXCEPT ![r].pc = "write",
                           ![r].next = Some([ nightNumber |-> gdoc.state[1].currentNight,
                                              playerId |-> api[r].playerId,
                                              type |-> actionType,
                                              targetPlayerId |-> targetPlayerId ])]
  /\ PlayUnchanged

\* action/route.ts:98-106: $push onto the actions of the document.
ActionWrite(r) ==
  /\ api[r].pc = "write"
  /\ api[r].kind = "action"
  /\ gdoc' = [ gdoc EXCEPT !.actions = Append(@, api[r].next[1]) ]
  /\ api' = [api EXCEPT ![r].pc = "done", ![r].result = "ok"]
  /\ UNCHANGED << deployment, now, games, inbox, events, cache, pub, tko, sub, poller,
                  pull, push, rules, tab >>

\* POST /api/game/ritual, ritual/route.ts:35-69
RitualCheck(doc, playerId) ==
  LET state == doc.state[1] IN
  IF state.phase # "NIGHT" THEN "not_night_phase"
  ELSE IF ~AliveIn(state, playerId) THEN "player_not_alive"
  ELSE IF state.players[FindPlayer(state.players, playerId)].role
            \in {"MAFIA", "DOCTOR", "DETECTIVE"}
  THEN "action_roles_cannot_submit_ritual"
  ELSE IF \E i \in 1 .. Len(doc.rituals) :
            doc.rituals[i].playerId = playerId /\ doc.rituals[i].nightNumber = state.currentNight
  THEN "ritual_already_submitted"
  ELSE "ok"

RitualRead(r) ==
  /\ api[r].pc = "authed"
  /\ api[r].kind = "ritual"
  /\ IF ~gdoc.exists
     THEN api' = [api EXCEPT ![r].pc = "done", ![r].result = "game_not_found"]
     ELSE LET check == RitualCheck(gdoc, api[r].playerId) IN
          IF check # "ok"
          THEN api' = [api EXCEPT ![r].pc = "done", ![r].result = check]
          ELSE api' = [api EXCEPT ![r].pc = "write",
                         ![r].next = Some([ playerId |-> api[r].playerId,
                                            nightNumber |-> gdoc.state[1].currentNight ])]
  /\ PlayUnchanged

\* ritual/route.ts:72-84: $push onto the rituals of the document.
RitualWrite(r) ==
  /\ api[r].pc = "write"
  /\ api[r].kind = "ritual"
  /\ gdoc' = [ gdoc EXCEPT !.rituals = Append(@, api[r].next[1]) ]
  /\ api' = [api EXCEPT ![r].pc = "done", ![r].result = "ok"]
  /\ UNCHANGED << deployment, now, games, inbox, events, cache, pub, tko, sub, poller,
                  pull, push, rules, tab >>

\* POST /api/game/vote, part_005:35-66
VoteCheck(doc, playerId, targetPlayerId) ==
  LET state == doc.state[1] IN
  IF state.phase # "VOTING" THEN "not_voting_phase"
  ELSE IF ~AliveIn(state, playerId) THEN "voter_not_alive"
  ELSE IF ~AliveIn(state, targetPlayerId) THEN "invalid_target"
  ELSE IF \E i \in 1 .. Len(doc.votes) :
            doc.votes[i].voterId = playerId /\ doc.votes[i].phaseId = state.phaseId
  THEN "already_voted"
  ELSE "ok"

\* part_005:69-75; `vote-${currentNight}` is the one-part id.
VoteRead(r) ==
  /\ api[r].pc = "authed"
  /\ api[r].kind = "vote"
  /\ IF ~gdoc.exists
     THEN api' = [api EXCEPT ![r].pc = "done", ![r].result = "game_not_found"]
     ELSE \E targetPlayerId \in PlayTargets :
            LET check == VoteCheck(gdoc, api[r].playerId, targetPlayerId)
                state == gdoc.state[1]
            IN
            IF check # "ok"
            THEN api' = [api EXCEPT ![r].pc = "done", ![r].result = check]
            ELSE api' = [api EXCEPT ![r].pc = "write",
                           ![r].next = Some([ voterId |-> api[r].playerId,
                                              targetPlayerId |-> targetPlayerId,
                                              phaseId |-> IF state.phaseId # None
                                                          THEN state.phaseId
                                                          ELSE Some(<< state.currentNight >>) ])]
  /\ PlayUnchanged

\* part_005:78-84: $push onto the votes of the document.
VoteWrite(r) ==
  /\ api[r].pc = "write"
  /\ api[r].kind = "vote"
  /\ gdoc' = [ gdoc EXCEPT !.votes = Append(@, api[r].next[1]) ]
  /\ api' = [api EXCEPT ![r].pc = "done", ![r].result = "ok"]
  /\ UNCHANGED << deployment, now, games, inbox, events, cache, pub, tko, sub, poller,
                  pull, push, rules, tab >>

\* POST /api/game/advance, advance/route.ts:35-60
AdvanceRead(r) ==
  /\ api[r].pc = "authed"
  /\ api[r].kind = "advance"
  /\ IF ~gdoc.exists
     THEN api' = [api EXCEPT ![r].pc = "done", ![r].result = "game_not_found"]
     ELSE LET state == gdoc.state[1] IN
          IF state.phase # "DAY"
          THEN api' = [api EXCEPT ![r].pc = "done", ![r].result = "can_only_advance_from_day"]
          ELSE api' = [api EXCEPT ![r].pc = "write",
                         ![r].next = Some([ state EXCEPT !.phase = "VOTING",
                                              !.phaseId = Some(<< state.currentNight, now >>),
                                              !.phaseStartedAt = now,
                                              !.version = @ + 1, !.updatedAt = now ])]
  /\ PlayUnchanged

\* advance/route.ts:62-72: $set of the state, whatever the document holds by now.
AdvanceWrite(r) ==
  /\ api[r].pc = "write"
  /\ api[r].kind = "advance"
  /\ gdoc' = [ gdoc EXCEPT !.state = api[r].next ]
  /\ api' = [api EXCEPT ![r].pc = "done", ![r].result = "ok", ![r].resp = api[r].next]
  /\ UNCHANGED << deployment, now, games, inbox, events, cache, pub, tko, sub, poller,
                  pull, push, rules, tab >>

\* restart/route.ts:53-73: a new state object; what it does not name (phaseId,
\* lastResolution, lastVoteResult, winner, revealedRoles) is absent from it.
RestartState(state, t) ==
  [ status |-> "ACTIVE", phase |-> "LOBBY", currentNight |-> 0, phaseId |-> None,
    phaseStartedAt |-> t, settings |-> state.settings,
    masterPlayerId |-> state.masterPlayerId, version |-> state.version + 1,
    players |-> [ i \in 1 .. Len(state.players) |->
                    GamePlayer(state.players[i].id, TRUE, "") ],
    lastResolution |-> None, lastVoteResult |-> None, winner |-> "",
    revealedRoles |-> {}, updatedAt |-> t ]

\* POST /api/game/restart, restart/route.ts:35-73
RestartRead(r) ==
  /\ api[r].pc = "authed"
  /\ api[r].kind = "restart"
  /\ IF ~gdoc.exists
     THEN api' = [api EXCEPT ![r].pc = "done", ![r].result = "game_not_found"]
     ELSE LET state == gdoc.state[1] IN
          IF state.phase # "GAME_OVER"
          THEN api' = [api EXCEPT ![r].pc = "done",
                                  ![r].result = "can_only_restart_from_game_over"]
          ELSE api' = [api EXCEPT ![r].pc = "write", ![r].next = Some(RestartState(state, now))]
  /\ PlayUnchanged

\* restart/route.ts:76-87: $set of the state and of empty actions, rituals
\* and votes.
RestartWrite(r) ==
  /\ api[r].pc = "write"
  /\ api[r].kind = "restart"
  /\ gdoc' = [ gdoc EXCEPT !.state = api[r].next, !.actions = << >>, !.rituals = << >>,
                           !.votes = << >> ]
  /\ api' = [api EXCEPT ![r].pc = "send"]
  /\ UNCHANGED << deployment, now, games, inbox, events, cache, pub, tko, sub, poller,
                  pull, push, rules, tab >>

\* restart/route.ts:90-106: a GAME_RESET goes to the inbox of every player.
RestartSend(r) ==
  /\ api[r].pc = "send"
  /\ api[r].kind = "restart"
  /\ LET players == api[r].next[1].players IN
       inbox' = PushAll(inbox,
                  [ i \in 1 .. Len(players) |->
                      << players[i].id, [ type |-> "GAME_RESET" ] >> ], 1)
  /\ api' = [api EXCEPT ![r].pc = "done", ![r].result = "ok", ![r].resp = api[r].next]
  /\ UNCHANGED << deployment, now, games, events, cache, gdoc, pub, tko, sub, poller,
                  pull, push, rules, tab >>

SubmitAction == \E r \in PlayIds : PlayAuth(r, "action") \/ ActionRead(r) \/ ActionWrite(r)

SubmitRitual == \E r \in PlayIds : PlayAuth(r, "ritual") \/ RitualRead(r) \/ RitualWrite(r)

SubmitVote == \E r \in PlayIds : PlayAuth(r, "vote") \/ VoteRead(r) \/ VoteWrite(r)

AdvanceToVoting == \E r \in PlayIds : PlayAuth(r, "advance") \/ AdvanceRead(r) \/ AdvanceWrite(r)

RestartGame ==
  \E r \in PlayIds :
    PlayAuth(r, "restart") \/ RestartRead(r) \/ RestartWrite(r) \/ RestartSend(r)

PollState == \E r \in PlayIds : GetState(r) \/ GetStateSave(r)

\* ------------------------------------ the coordinator's tab (page.tsx) ----
\* getPhaseDurationSeconds; 0 stands for null
getPhaseDurationSeconds(phase, settings) ==
  IF phase = "NIGHT" THEN settings.nightSeconds
  ELSE IF phase = "DAY" THEN settings.daySeconds
  ELSE IF phase = "VOTING" THEN settings.votingSeconds ELSE 0

withRoles(players, roleMap) ==
  [ i \in 1 .. Len(players) |-> [ players[i] EXCEPT !.role = roleMap[players[i].id] ] ]

stripRoles(players) == [ i \in 1 .. Len(players) |-> [ players[i] EXCEPT !.role = "" ] ]

\* The tab of the coordinator: gameState is the React state, roles the
\* masterRoles of localStorage, nightActions, nightRituals and votes the maps of
\* masterCacheRef (each entry carries its key), posting the calls of
\* relaySetState that are not answered yet, last the callback that ran last.
TabOf(playerId, gameState, roles) ==
  Some([ playerId |-> playerId, gameState |-> gameState, roles |-> roles,
         nightActions |-> << >>, nightRituals |-> << >>, votes |-> << >>,
         posting |-> << >>, last |-> "" ])

\* page.tsx:416
isMaster(t) == t.gameState.masterPlayerId = t.playerId

\* publishState up to its await (page.tsx:757-760)
publishState(t, next) ==
  [ t EXCEPT !.posting = Append(@, [ next EXCEPT !.players = stripRoles(@) ]) ]

\* handleStartVoting with Date.now() = clock; the phaseId
\* `VOTE-${currentNight}-${Date.now()}` is the pair of its two parts.
handleStartVoting(t, clock) ==
  IF ~isMaster(t) THEN t
  ELSE publishState([ t EXCEPT !.votes = << >> ],
         [ t.gameState EXCEPT !.phase = "VOTING",
             !.phaseId = Some(<< t.gameState.currentNight, clock >>),
             !.phaseStartedAt = clock, !.version = @ + 1 ])

\* handleStartNight
handleStartNight(t, clock) ==
  IF ~isMaster(t) THEN t
  ELSE publishState([ t EXCEPT !.nightActions = << >>, !.nightRituals = << >>,
                               !.votes = << >> ],
         [ t.gameState EXCEPT !.phase = "NIGHT", !.currentNight = @ + 1, !.phaseId = None,
             !.phaseStartedAt = clock, !.lastResolution = None, !.lastVoteResult = None,
             !.winner = "", !.version = @ + 1 ])

\* attemptNightResolution(false) up to its last early return (page.tsx:771-812):
\* the night is ready.
NightReady(t) ==
  LET playersWithRoles == withRoles(t.gameState.players, t.roles)
      aliveWithRole == SelectSeq(playersWithRoles, LAMBDA p : p.alive /\ p.role # "")
      requiredRoles == { aliveWithRole[i].role : i \in 1 .. Len(aliveWithRole) }
      aliveActionPlayers ==
        SelectSeq(aliveWithRole, LAMBDA p : p.role \in {"MAFIA", "DOCTOR", "DETECTIVE"})
      aliveRitualPlayers ==
        SelectSeq(playersWithRoles, LAMBDA p : p.alive /\ p.role \in {"", "VILLAGER"})
      actions == SelectSeq(t.nightActions,
                   LAMBDA a : a.nightNumber = t.gameState.currentNight)
      rituals == SelectSeq(t.nightRituals,
                   LAMBDA x : x.nightNumber = t.gameState.currentNight)
      actionTypes == { actions[i].type : i \in 1 .. Len(actions) }
  IN  /\ "MAFIA" \in requiredRoles => "KILL" \in actionTypes
      /\ "DOCTOR" \in requiredRoles => "SAVE" \in actionTypes
      /\ "DETECTIVE" \in requiredRoles => "INSPECT" \in actionTypes
      /\ \A i \in 1 .. Len(aliveRitualPlayers) :
           \E j \in 1 .. Len(rituals) : rituals[j].playerId = aliveRitualPlayers[i].id
      /\ \A i \in 1 .. Len(aliveActionPlayers) :
           \E j \in 1 .. Len(actions) : actions[j].playerId = aliveActionPlayers[i].id

\* attemptVoteResolution with Date.now() = clock
attemptVoteResolution(t, force, clock) ==
  LET gameState == t.gameState
      votes == SelectSeq(t.votes, LAMBDA v : v.phaseId = gameState.phaseId)
      alivePlayers == getAlivePlayers(gameState.players)
  IN
  IF gameState.phaseId = None THEN t
  ELSE IF ~force /\ Len(votes) < Len(alivePlayers) THEN t
  ELSE LET playersWithRoles == withRoles(gameState.players, t.roles)
           result == resolveVotes([ players |-> playersWithRoles ], votes)
           winner == checkWin(result.updatedPlayers)
           eliminatedRole ==
             IF gameState.settings.revealRoleOnDeath /\ result.eliminatedPlayerId # ""
             THEN t.roles[result.eliminatedPlayerId] ELSE ""
           next == [ gameState EXCEPT
                       !.players = result.updatedPlayers,
                       !.phase = IF winner # "" THEN "GAME_OVER" ELSE "RESOLUTION",
                       !.status = IF winner # "" THEN "COMPLETED" ELSE @,
                       !.winner = IF winner # "" THEN winner ELSE @,
                       !.revealedRoles =
                          IF winner # ""
                          THEN { << id, t.roles[id] >> :
                                   id \in { d \in DOMAIN t.roles : t.roles[d] # "" } }
                          ELSE @,
                       !.phaseStartedAt = clock,
                       !.lastVoteResult =
                          Some([ eliminatedPlayerId |-> result.eliminatedPlayerId,
                                 tie |-> result.tie, eliminatedRole |-> eliminatedRole ]),
                       !.version = @ + 1 ]
       IN  publishState([ t EXCEPT !.votes = SelectSeq(@, LAMBDA v :
                                                 v.phaseId # gameState.phaseId) ],
                        next)

\* The tick of the auto-advance effect (page.tsx:642-667) with Date.now() =
\* clock.  No ACTION or RITUAL event is delivered to the tab here, so a night
\* is never ready and the resolution behind attemptNightResolution(false) is
\* not followed: the tick of a night leaves the tab as it is.
tick(t, clock) ==
  LET gameState == t.gameState
      duration == getPhaseDurationSeconds(gameState.phase, gameState.settings)
  IN
  IF ~isMaster(t) \/ ~gameState.settings.autoAdvance THEN t
  ELSE IF duration = 0 THEN t
  ELSE IF 1000 * duration - (clock - gameState.phaseStartedAt) > 0 THEN t
  ELSE IF gameState.phase = "NIGHT" THEN t
  ELSE IF gameState.phase = "DAY" THEN handleStartVoting(t, clock)
  ELSE IF gameState.phase = "VOTING" THEN attemptVoteResolution(t, TRUE, clock)
  ELSE t

TabUnchanged ==
  UNCHANGED << deployment, now, games, inbox, events, cache, gdoc, pub, tko, sub, poller,
               pull, push, api, rules >>

TabTick ==
  /\ tab # NoTab
  /\ Len(tab[1].posting) < MaxPosts
  /\ ~(tab[1].gameState.phase = "NIGHT" /\ NightReady(tab[1]))
  /\ tab' = Some([ tick(tab[1], now) EXCEPT !.last = "tick" ])
  /\ TabUnchanged

\* The buttons "Start voting", shown to the coordinator in DAY (page.tsx:1754-1757),
\* and "Start next night", shown in RESOLUTION (page.tsx:1810-1813).
TabClick ==
  /\ tab # NoTab
  /\ Len(tab[1].posting) < MaxPosts
  /\ isMaster(tab[1])
  /\ \/ /\ tab[1].gameState.phase = "DAY"
        /\ tab' = Some([ handleStartVoting(tab[1], now) EXCEPT !.last = "click" ])
     \/ /\ tab[1].gameState.phase = "RESOLUTION"
        /\ tab' = Some([ handleStartNight(tab[1], now) EXCEPT !.last = "click" ])
  /\ TabUnchanged

\* The voters whose VOTE events reach the coordinator, and their targets: p1
\* and p2 choose, p3 and p4 vote for p2, and so does px, who is not a player
\* of the game (the relay stores the events of anyone, relay/events/route.ts).
TabVoters == {"p1", "p2", "p3", "p4", "px"}

TabTargets(voterId) == IF voterId \in {"p1", "p2"} THEN PlayTargets ELSE {"p2"}

\* handleEvent for a VOTE (page.tsx:743-754) with Date.now() = clock
handleVote(t, vote, clock) ==
  IF t.gameState.phase # "VOTING" \/ t.gameState.phaseId = None THEN t
  ELSE LET votes == SelectSeq(t.votes, LAMBDA v : v.phaseId = vote.phaseId)
           already == \E i \in 1 .. Len(votes) : votes[i].voterId = vote.voterId
       IN  attemptVoteResolution(
             IF already THEN t ELSE [ t EXCEPT !.votes = Append(@, vote) ], FALSE, clock)

\* A VOTE event is delivered to the coordinator; the voter's tab sent the
\* phaseId of the snapshot it shows (page.tsx:1171-1177).
TabVote ==
  /\ tab # NoTab
  /\ Len(tab[1].posting) < MaxPosts
  /\ getState(games) # None
  /\ getState(games)[1].phaseId # None
  /\ \E voterId \in TabVoters :
     \E targetPlayerId \in TabTargets(voterId) :
       tab' = Some([ handleVote(tab[1],
                                [ voterId |-> voterId, targetPlayerId |-> targetPlayerId,
                                  phaseId |-> getState(games)[1].phaseId ],
                                now)
                     EXCEPT !.last = "event" ])
  /\ TabUnchanged

\* A VOTE event of p3 or p4 that names px, who is not a player of the game:
\* the screen offers the alive players (page.tsx:1775-1779), the relay stores
\* whatever event it is sent.
TabVoteStray ==
  /\ tab # NoTab
  /\ Len(tab[1].posting) < MaxPosts
  /\ getState(games) # None
  /\ getState(games)[1].phaseId # None
  /\ \E voterId \in {"p3", "p4"} :
       tab' = Some([ handleVote(tab[1],
                                [ voterId |-> voterId, targetPlayerId |-> "px",
                                  phaseId |-> getState(games)[1].phaseId ],
                                now)
                     EXCEPT !.last = "event" ])
  /\ TabUnchanged

\* POST /api/relay/state of the in-process store (relay/state/route.ts:20-37)
\* on the oldest call of relaySetState, and the rest of publishState on its
\* answer (page.tsx:760-764).
TabPublished ==
  /\ tab # NoTab
  /\ tab[1].posting # << >>
  /\ LET body == Head(tab[1].posting)
         current == getState(games)
         nextState == [ body EXCEPT !.updatedAt = now ]
     IN  IF PublishIgnores(body, current)
         THEN /\ tab' = Some([ tab[1] EXCEPT !.gameState = current[1],
                                             !.posting = Tail(@), !.last = "answer" ])
              /\ UNCHANGED games
         ELSE /\ games' = setState(games, nextState)
              /\ tab' = Some([ tab[1] EXCEPT !.gameState = nextState,
                                             !.posting = Tail(@), !.last = "answer" ])
  /\ UNCHANGED << deployment, now, inbox, events, cache, gdoc, pub, tko, sub, poller,
                  pull, push, api, rules >>

\* ------------------------- the coordinator's tab in a night (page.tsx) ----
\* The tab of the coordinator of a night: as TabOf, and resolving holds the
\* calls of attemptNightResolution that wait on a relaySendSecret, each with
\* the gameState and the actions of its closure, its result, and the number of
\* inspection results it has sent.
NightTabOf(playerId, gameState, roles) ==
  Some([ playerId |-> playerId, gameState |-> gameState, roles |-> roles,
         nightActions |-> << >>, nightRituals |-> << >>, votes |-> << >>,
         posting |-> << >>, last |-> "", resolving |-> << >> ])

\* The end of attemptNightResolution (page.tsx:835-849) with Date.now() = clock.
finishNightResolution(t, gameState, result, clock) ==
  LET killedRole ==
        IF gameState.settings.revealRoleOnDeath /\ result.killedPlayerId # ""
        THEN t.roles[result.killedPlayerId] ELSE ""
      next == [ gameState EXCEPT
                  !.players = result.updatedPlayers,
                  !.phase = "DAY",
                  !.phaseStartedAt = clock,
                  !.lastResolution =
                     Some([ killedPlayerId |-> result.killedPlayerId,
                            savedPlayerId |-> result.savedPlayerId,
                            killedRole |-> killedRole ]),
                  !.version = @ + 1 ]
  IN  publishState([ t EXCEPT
                       !.nightActions = SelectSeq(@, LAMBDA a :
                                          a.nightNumber # gameState.currentNight),
                       !.nightRituals = SelectSeq(@, LAMBDA x :
                                          x.nightNumber # gameState.currentNight) ],
                   next)

\* attemptNightResolution(false) up to its first await (page.tsx:767-824).
attemptNightResolution(t, clock) ==
  IF ~NightReady(t) THEN t
  ELSE LET gameState == t.gameState
           playersWithRoles == withRoles(gameState.players, t.roles)
           actions == SelectSeq(t.nightActions,
                        LAMBDA a : a.nightNumber = gameState.currentNight)
           result == resolveNightActions([ players |-> playersWithRoles ], actions)
       IN  IF Len(result.inspectionResults) = 0
           THEN finishNightResolution(t, gameState, result, clock)
           ELSE [ t EXCEPT !.resolving =
                    Append(@, [ gameState |-> gameState, actions |-> actions,
                                result |-> result, sent |-> 0 ]) ]

\* handleEvent for an ACTION (page.tsx:700-726) with Date.now() = clock; the
\* ACTION_REJECTED sent to a Mafia who names a Mafia is not followed.
handleAction(t, action, clock) ==
  IF t.gameState.phase # "NIGHT" THEN t
  ELSE IF action.targetPlayerId = "" THEN t
  ELSE IF /\ action.type = "KILL"
          /\ t.roles[action.playerId] = "MAFIA"
          /\ t.roles[action.targetPlayerId] = "MAFIA" THEN t
  ELSE LET actions == SelectSeq(t.nightActions,
                        LAMBDA a : a.nightNumber = action.nightNumber)
           already == \E i \in 1 .. Len(actions) : actions[i].playerId = action.playerId
       IN  attemptNightResolution(
             IF already THEN t ELSE [ t EXCEPT !.nightActions = Append(@, action) ], clock)

\* handleEvent for a RITUAL (page.tsx:728-741) with Date.now() = clock
handleRitual(t, ritual, clock) ==
  IF t.gameState.phase # "NIGHT" \/ ritual.nightNumber # t.gameState.currentNight THEN t
  ELSE LET has == \E i \in 1 .. Len(t.nightRituals) :
                    /\ t.nightRituals[i].nightNumber = ritual.nightNumber
                    /\ t.nightRituals[i].playerId = ritual.playerId
       IN  attemptNightResolution(
             IF has THEN t ELSE [ t EXCEPT !.nightRituals = Append(@, ritual) ], clock)

\* The ACTION events that reach the coordinator in a night.  The relay stores
\* the events of anyone (relay/events/route.ts), so next to what the role
\* screens of p2 (Mafia), p3 (Doctor) and p4 (Detective) send there are the
\* KILL and the INSPECT of p1, the Villager.
NightEvents ==
  { [ playerId |-> "p1", type |-> "KILL", targetPlayerId |-> "p4" ],
    [ playerId |-> "p1", type |-> "INSPECT", targetPlayerId |-> "p2" ],
    [ playerId |-> "p2", type |-> "KILL", targetPlayerId |-> "p3" ],
    [ playerId |-> "p3", type |-> "SAVE", targetPlayerId |-> "p4" ],
    [ playerId |-> "p4", type |-> "INSPECT", targetPlayerId |-> "p2" ] }

\* An ACTION event of the night is delivered to the coordinator
\* (pollEvents, page.tsx:588-603).
TabAction ==
  /\ tab # NoTab
  /\ isMaster(tab[1])
  /\ Len(tab[1].posting) + Len(tab[1].resolving) < MaxPosts
  /\ \E a \in NightEvents :
       tab' = Some([ handleAction(tab[1],
                       [ nightNumber |-> tab[1].gameState.currentNight,
                         playerId |-> a.playerId, type |-> a.type,
                         targetPlayerId |-> a.targetPlayerId ], now)
                     EXCEPT !.last = "action" ])
  /\ TabUnchanged

\* A RITUAL event of the night is delivered to the coordinator.
TabRitual ==
  /\ tab # NoTab
  /\ isMaster(tab[1])
  /\ Len(tab[1].posting) + Len(tab[1].resolving) < MaxPosts
  /\ \E playerId \in {"p1"} :
       tab' = Some([ handleRitual(tab[1],
                       [ nightNumber |-> tab[1].gameState.currentNight,
                         playerId |-> playerId ], now)
                     EXCEPT !.last = "ritual" ])
  /\ TabUnchanged

\* The tick of the auto-advance effect in a night that has run out
\* (page.tsx:642-662): attemptNightResolution(false).
TabNightTick ==
  /\ tab # NoTab
  /\ isMaster(tab[1])
  /\ Len(tab[1].posting) + Len(tab[1].resolving) < MaxPosts
  /\ LET gameState == tab[1].gameState IN
       /\ gameState.phase = "NIGHT"
       /\ gameState.settings.autoAdvance
       /\ 1000 * gameState.settings.nightSeconds - (now - gameState.phaseStartedAt) <= 0
  /\ tab' = Some([ attemptNightResolution(tab[1], now) EXCEPT !.last = "tick" ])
  /\ TabUnchanged

\* POST /api/relay/secret of the in-process store on the relaySendSecret a
\* resolution waits on (page.tsx:824-833), and the resolution's next stretch on
\* its answer: the next relaySendSecret, or the end of attemptNightResolution.
TabSecret ==
  /\ tab # NoTab
  /\ \E i \in 1 .. Len(tab[1].resolving) :
       LET call == tab[1].resolving[i]
           inspection == call.result.inspectionResults[call.sent + 1]
           message == [ type |-> "INSPECTION_RESULT",
                        nightNumber |-> call.gameState.currentNight,
                        targetPlayerId |-> inspection.targetPlayerId,
                        targetRole |-> inspection.targetRole ]
           rest == [ j \in 1 .. Len(tab[1].resolving) - 1 |->
                       tab[1].resolving[IF j < i THEN j ELSE j + 1] ]
       IN  /\ inbox' = PushAll(inbox, << << inspection.detectiveId, message >> >>, 1)
           /\ tab' = Some([ ( IF call.sent + 1 < Len(call.result.inspectionResults)
                              THEN [ tab[1] EXCEPT !.resolving[i].sent = @ + 1 ]
                              ELSE finishNightResolution(
                                     [ tab[1] EXCEPT !.resolving = rest ],
                                     call.gameState, call.result, now) )
                            EXCEPT !.last = "secret" ])
  /\ UNCHANGED << deployment, now, games, events, cache, gdoc, pub, tko, sub, poller,
                  pull, push, api, rules >>

\* --------------------- the coordinator's tab and the joiners (page.tsx) ----
\* The tab of the coordinator as far as JOIN events go: eventCursor is
\* masterCacheRef.current.eventCursor, and fetched the call of relayFetchEvents
\* that pollEvents waits on, with the `active` of its effect.
LobbyTabOf(playerId, gameState) ==
  Some([ playerId |-> playerId, gameState |-> gameState, posting |-> << >>,
         last |-> "", eventCursor |-> 0, fetched |-> None ])

\* Those who join: p2 and p3, and px, whom no started game of p1 .. p4 holds.
Joiners == {"p2", "p3", "px"}

\* handleJoinGame (page.tsx:928-953) with POST /api/relay/events of the
\* in-process store: the event's id is generated, here the joiner's id.
LobbyJoin ==
  /\ tab # NoTab
  /\ getState(games) # None
  /\ \E p \in Joiners :
       /\ ~HasEventId(events, p)
       /\ events' = Append(events,
                      WithIndex([ id |-> p, type |-> "JOIN", playerId |-> p,
                                  token |-> "t1" ], games.nextEventIndex))
       /\ games' = [ games EXCEPT !.nextEventIndex = @ + 1 ]
       /\ inbox' = SetInboxIfAbsent(inbox, p, "t1")
  /\ UNCHANGED << deployment, now, cache, gdoc, pub, tko, sub, poller, pull, push, api,
                  rules, tab >>

\* handleEvent for a JOIN (page.tsx:680-698)
handleJoin(t, event) ==
  IF \E i \in 1 .. Len(t.gameState.players) : t.gameState.players[i].id = event.playerId
  THEN t
  ELSE publishState(t,
         [ t.gameState EXCEPT !.players = Append(@, GamePlayer(event.playerId, TRUE, "")),
                              !.version = @ + 1 ])

\* events.forEach of pollEvents (page.tsx:596-602): every event is handled by
\* the handleEvent of the same render, that is on the same gameState.
RECURSIVE handleEvents(_, _, _)
handleEvents(t, batch, i) ==
  IF i > Len(batch) THEN t
  ELSE handleEvents(
         handleJoin([ t EXCEPT !.eventCursor =
                        IF batch[i].index > @ THEN batch[i].index ELSE @ ], batch[i]),
         batch, i + 1)

\* A re-render with a new gameState runs the cleanup of the pollEvents effect
\* (page.tsx:607-610): active = false for the call in flight.
Rendered(t, gameState) ==
  [ t EXCEPT !.gameState = gameState,
             !.fetched = IF @ = None THEN @ ELSE Some([ @[1] EXCEPT !.active = FALSE ]) ]

\* pollEvents up to its await, with GET /api/relay/events (page.tsx:588-592)
LobbyFetch ==
  /\ tab # NoTab
  /\ isMaster(tab[1])
  /\ tab[1].fetched = None
  /\ tab' = Some([ tab[1] EXCEPT !.last = "fetch",
                     !.fetched = Some([ events |-> getEvents(events, tab[1].eventCursor),
                                        active |-> TRUE ]) ])
  /\ TabUnchanged

\* pollEvents from its await on (page.tsx:593-602)
LobbyHandle ==
  /\ tab # NoTab
  /\ tab[1].fetched # None
  /\ LET fetched == tab[1].fetched[1]
         t == [ tab[1] EXCEPT !.fetched = None, !.last = "events" ]
     IN  tab' = Some(IF ~fetched.active \/ Len(fetched.events) = 0 THEN t
                     ELSE handleEvents(t, fetched.events, 1))
  /\ TabUnchanged

\* The state poll of the tab (page.tsx:497-505): the snapshot it sets is a new
\* object, whatever it holds.
LobbyPoll ==
  /\ tab # NoTab
  /\ getState(games) # None
  /\ tab' = Some([ Rendered(tab[1], getState(games)[1]) EXCEPT !.last = "poll" ])
  /\ TabUnchanged

\* POST /api/relay/state of the in-process store (relay/state/route.ts:20-37)
\* on the oldest call of relaySetState, and the rest of publishState on its
\* answer (page.tsx:760-764).
LobbyPublished ==
  /\ tab # NoTab
  /\ tab[1].posting # << >>
  /\ LET body == Head(tab[1].posting)
         current == getState(games)
         nextState == [ body EXCEPT !.updatedAt = now ]
         updated == IF PublishIgnores(body, current) THEN current[1] ELSE nextState
     IN  /\ games' = IF PublishIgnores(body, current) THEN games
                     ELSE setState(games, nextState)
         /\ tab' = Some([ Rendered(tab[1], updated) EXCEPT !.posting = Tail(@),
                                                           !.last = "answer" ])
  /\ UNCHANGED << deployment, now, inbox, events, cache, gdoc, pub, tko, sub, poller,
                  pull, push, api, rules >>

\* ------------------------------- a participant's tab that watches (page.tsx) ----
\* [...gameState.players].map((p) => p.id).sort(): the ids p1 .. p4 in the
\* order sort() puts them in, by UTF-16 code units.
IdOrder == << "p1", "p2", "p3", "p4" >>

\* sortedIds[0]; "" stands for undefined
SortedFirst(players) ==
  LET listed == { i \in 1 .. Len(IdOrder) : IndexOfId(players, IdOrder[i], 1) # 0 } IN
  IF listed = {} THEN ""
  ELSE IdOrder[CHOOSE i \in listed : \A j \in listed : i <= j]

\* The tab of a participant: gameState and lastStateAt are React state (0
\* stands for null, which `lastStateAt ? ... : false` treats alike),
\* attemptVersion is autoTakeoverAttemptVersionRef (-1 stands for null).
WatchOf(playerId, gameState, t) ==
  Some([ playerId |-> playerId, gameState |-> gameState, lastStateAt |-> t,
         attemptVersion |-> -1, posting |-> << >>, last |-> "" ])

\* The auto-takeover effect (page.tsx:613-640) run with Date.now() = clock.
autoTakeover(t, clock) ==
  LET gameState == t.gameState
      isStale == t.lastStateAt # 0 /\ clock - t.lastStateAt > MASTER_STALE_MS
  IN
  IF isMaster(t) THEN t
  ELSE IF ~isStale THEN [ t EXCEPT !.attemptVersion = -1 ]
  ELSE IF t.attemptVersion = gameState.version THEN t
  ELSE IF SortedFirst(gameState.players) # t.playerId
  THEN [ t EXCEPT !.attemptVersion = gameState.version ]
  ELSE publishState([ t EXCEPT !.attemptVersion = gameState.version ],
         [ gameState EXCEPT !.masterPlayerId = t.playerId, !.version = @ + 1,
                            !.updatedAt = clock ])

\* An answer of the state poll (page.tsx:497-505) in a build that renders the
\* two updates together: the effect runs once, on both.
WatchPoll ==
  /\ tab # NoTab
  /\ getState(games) # None
  /\ tab' = Some([ autoTakeover([ tab[1] EXCEPT !.gameState = getState(games)[1],
                                                !.lastStateAt = now ], now)
                   EXCEPT !.last = "poll" ])
  /\ TabUnchanged

\* The same answer in a build that renders setGameState and setLastStateAt one
\* after the other: the effect runs on the new gameState with the lastStateAt
\* of the poll answered before, and again on the new lastStateAt.
WatchPollUnbatched ==
  /\ tab # NoTab
  /\ getState(games) # None
  /\ Len(tab[1].posting) < MaxPosts
  /\ LET first == autoTakeover([ tab[1] EXCEPT !.gameState = getState(games)[1] ], now)
     IN  tab' = Some([ autoTakeover([ first EXCEPT !.lastStateAt = now ], now)
                       EXCEPT !.last = "render" ])
  /\ TabUnchanged

\* POST /api/relay/state of the in-process store (relay/state/route.ts:20-37)
\* on the oldest call of relaySetState; on its answer publishState sets the
\* gameState (page.tsx:760-764) and the effect runs on it.
WatchPublished ==
  /\ tab # NoTab
  /\ tab[1].posting # << >>
  /\ LET body == Head(tab[1].posting)
         current == getState(games)
         nextState == [ body EXCEPT !.updatedAt = now ]
         updated == IF PublishIgnores(body, current) THEN current[1] ELSE nextState
     IN  /\ games' = IF PublishIgnores(body, current) THEN games
                     ELSE setState(games, nextState)
         /\ tab' = Some([ autoTakeover([ tab[1] EXCEPT !.gameState = updated,
                                                       !.posting = Tail(@) ], now)
                          EXCEPT !.last = "answer" ])
  /\ UNCHANGED << deployment, now, inbox, events, cache, gdoc, pub, tko, sub, poller,
                  pull, push, api, rules >>

\* -------------------------------------------------- specifications ----
\* An empty store in front of which snapshots are published.
InitPublish ==
  /\ deployment \in {"memory", "mongo1", "mongo2"}
  /\ now = 0
  /\ games = NoGame
  /\ inbox = NoInbox
  /\ events = << >>
  /\ cache = NoCache
  /\ pub = [ r \in PubIds |-> IdlePub ]
  /\ tko = [ r \in TkoIds |-> IdleTko ]
  /\ sub = [ r \in SubIds |-> IdleSub ]
  /\ poller = NoPoller
  /\ pull = [ r \in PullIds |-> IdlePull ]
  /\ push = [ r \in PushIds |-> IdlePush ]
  /\ gdoc = NoDoc
  /\ api = [ r \in ApiIds |-> IdleApi ]
  /\ rules = NoRules
  /\ tab = NoTab

NextPublish == Tick \/ Publish

SpecPublish == InitPublish /\ [][NextPublish]_vars

\* A lobby whose creator published createInitialState (version 1) and in which
\* the participants' JOIN events registered their inboxes.
Lobby(master) ==
  [ version |-> 1, masterPlayerId |-> master, phase |-> "LOBBY", updatedAt |-> 0,
    players |-> << Player("p1", TRUE), Player("p2", TRUE), Player("p3", TRUE),
                   Player("p4", TRUE) >> ]

InitTakeover ==
  /\ deployment = "mongo2"
  /\ now = 0
  /\ \E m \in Players : games = setState(NoGame, Lobby(m))
  /\ inbox = [ p \in Players |-> Some(Inbox("t1", << >>)) ]
  /\ events = << >>
  /\ cache = NoCache
  /\ pub = [ r \in PubIds |-> IdlePub ]
  /\ tko = [ r \in TkoIds |-> IdleTko ]
  /\ sub = [ r \in SubIds |-> IdleSub ]
  /\ poller = NoPoller
  /\ pull = [ r \in PullIds |-> IdlePull ]
  /\ push = [ r \in PushIds |-> IdlePush ]
  /\ gdoc = NoDoc
  /\ api = [ r \in ApiIds |-> IdleApi ]
  /\ rules = NoRules
  /\ tab = NoTab

NextTakeover == Tick \/ Takeover

SpecTakeover == InitTakeover /\ [][NextTakeover]_vars

\* Takeover requests racing one publish of the awaiting route.
NextCoord == Tick \/ PublishRead(1) \/ PublishWrite(1) \/ Takeover

SpecCoord == InitTakeover /\ [][NextCoord]_vars

\* Takeover requests racing the publishes of the awaiting route.
PublishAwaiting == \E r \in PubIds : PublishRead(r) \/ PublishWrite(r)

\* The lobby of p1, whose snapshot has just gone stale.
InitHandover ==
  /\ deployment = "mongo2"
  /\ now = MASTER_STALE_MS + 1
  /\ games = setState(NoGame, Lobby("p1"))
  /\ inbox = [ p \in Players |-> Some(Inbox("t1", << >>)) ]
  /\ events = << >>
  /\ cache = NoCache
  /\ pub = [ r \in PubIds |-> IdlePub ]
  /\ tko = [ r \in TkoIds |-> IdleTko ]
  /\ sub = [ r \in SubIds |-> IdleSub ]
  /\ poller = NoPoller
  /\ pull = [ r \in PullIds |-> IdlePull ]
  /\ push = [ r \in PushIds |-> IdlePush ]
  /\ gdoc = NoDoc
  /\ api = [ r \in ApiIds |-> IdleApi ]
  /\ rules = NoRules
  /\ tab = NoTab

NextHandover == PublishAwaiting \/ Takeover

SpecHandover == InitHandover /\ [][NextHandover]_vars

\* Submissions to an empty session, and the coordinator polling them.
InitRelay ==
  /\ deployment \in {"memory", "mongo1", "mongo2"}
  /\ now = 0
  /\ games = NoGame
  /\ inbox = NoInbox
  /\ events = << >>
  /\ cache = NoCache
  /\ pub = [ r \in PubIds |-> IdlePub ]
  /\ tko = [ r \in TkoIds |-> IdleTko ]
  /\ sub = [ r \in SubIds |-> IdleSub ]
  /\ poller = NoPoller
  /\ pull = [ r \in PullIds |-> IdlePull ]
  /\ push = [ r \in PushIds |-> IdlePush ]
  /\ gdoc = NoDoc
  /\ api = [ r \in ApiIds |-> IdleApi ]
  /\ rules = NoRules
  /\ tab = NoTab

NextRelay == SubmitEvent \/ PollEvents

SpecRelay == InitRelay /\ [][NextRelay]_vars

\* The mongoose store behind a process whose cache is empty: a session never
\* seen, or one whose document an earlier process wrote.
InitCached ==
  /\ deployment = "cached"
  /\ now = 0
  /\ \/ games = NoGame /\ events = << >>
     \/ /\ games = [ exists |-> TRUE, state |-> None, nextEventIndex |-> 2 ]
        /\ events = << WithIndex([ id |-> "e0", type |-> "ACTION", playerId |-> "p1",
                                   token |-> "" ], 1) >>
  /\ inbox = NoInbox
  /\ cache = NoCache
  /\ pub = [ r \in PubIds |-> IdlePub ]
  /\ tko = [ r \in TkoIds |-> IdleTko ]
  /\ sub = [ r \in SubIds |-> IdleSub ]
  /\ poller = NoPoller
  /\ pull = [ r \in PullIds |-> IdlePull ]
  /\ push = [ r \in PushIds |-> IdlePush ]
  /\ gdoc = NoDoc
  /\ api = [ r \in ApiIds |-> IdleApi ]
  /\ rules = NoRules
  /\ tab = NoTab

NextCached == SubmitCached

SpecCached == InitCached /\ [][NextCached]_vars

\* A session in which p1 is registered with token t1 and has mail waiting, and
\* p2's JOIN is stored while its inbox is not registered yet.
InitInbox ==
  /\ deployment \in {"memory", "mongo1", "mongo2", "backend"}
  /\ now = 0
  /\ games = [ exists |-> TRUE, state |-> None, nextEventIndex |-> 3 ]
  /\ events = << WithIndex([ id |-> "e1", type |-> "JOIN", playerId |-> "p1",
                             token |-> "t1" ], 1),
                 WithIndex([ id |-> "e2", type |-> "JOIN", playerId |-> "p2",
                             token |-> "t2" ], 2) >>
  /\ \E q \in { SubSeq(Queued, 1, n) : n \in 0 .. Len(Queued) } :
       inbox = [ p \in Players |-> IF p = "p1" THEN Some(Inbox("t1", q)) ELSE None ]
  /\ cache = NoCache
  /\ pub = [ r \in PubIds |-> IdlePub ]
  /\ tko = [ r \in TkoIds |-> IdleTko ]
  /\ sub = [ r \in SubIds |-> IdleSub ]
  /\ poller = NoPoller
  /\ pull = [ r \in PullIds |-> IdlePull ]
  /\ push = [ r \in PushIds |-> IdlePush ]
  /\ gdoc = NoDoc
  /\ api = [ r \in ApiIds |-> IdleApi ]
  /\ rules = NoRules
  /\ tab = NoTab

NextInbox == PullMailbox \/ PushMailbox

SpecInbox == InitInbox /\ [][NextInbox]_vars

\* The backend after POST /api/game and three POST /api/game/join: a lobby of
\* four, each with a registered inbox.
BackendLobby ==
  [ status |-> "ACTIVE", phase |-> "LOBBY", currentNight |-> 0, phaseId |-> None,
    phaseStartedAt |-> 0, settings |-> DefaultSettings, masterPlayerId |-> "p1",
    version |-> 4,
    players |-> << GamePlayer("p1", TRUE, ""), GamePlayer("p2", TRUE, ""),
                   GamePlayer("p3", TRUE, ""), GamePlayer("p4", TRUE, "") >>,
    lastResolution |-> None, lastVoteResult |-> None, winner |-> "",
    revealedRoles |-> {}, updatedAt |-> 0 ]

InitBackend ==
  /\ deployment = "backend"
  /\ now = 0
  /\ games = NoGame
  /\ inbox = [ p \in Players |-> Some(Inbox("t1", << >>)) ]
  /\ events = << >>
  /\ cache = NoCache
  /\ gdoc = [ NoDoc EXCEPT !.exists = TRUE, !.state = Some(BackendLobby) ]
  /\ pub = [ r \in PubIds |-> IdlePub ]
  /\ tko = [ r \in TkoIds |-> IdleTko ]
  /\ sub = [ r \in SubIds |-> IdleSub ]
  /\ poller = NoPoller
  /\ pull = [ r \in PullIds |-> IdlePull ]
  /\ push = [ r \in PushIds |-> IdlePush ]
  /\ api = [ r \in ApiIds |-> IdleApi ]
  /\ rules = NoRules
  /\ tab = NoTab

NextBackend == TickPhase \/ StartGame \/ ReadGame

SpecBackend == InitBackend /\ [][NextBackend]_vars

\* A session that already stores the event e1 at index 1: an ACTION of p1 sent
\* to an empty session, or the JOIN of p1 with token t1, which registered p1's
\* inbox and, behind the awaiting routes, created the placeholder lobby.
Resubmitted == "e1"

InitResubmit ==
  /\ deployment \in {"memory", "mongo1", "mongo2"}
  /\ now = 0
  /\ \E type \in {"ACTION", "JOIN"} :
       /\ events = << WithIndex([ id |-> Resubmitted, type |-> type, playerId |-> "p1",
                                  token |-> IF type = "JOIN" THEN "t1" ELSE "" ], 1) >>
       /\ games = [ exists |-> TRUE,
                    state |-> IF type = "JOIN" /\ deployment # "memory"
                              THEN Some(Placeholder("p1", 0)) ELSE None,
                    nextEventIndex |-> 2 ]
       /\ inbox = [ p \in Players |-> IF type = "JOIN" /\ p = "p1"
                                      THEN Some(Inbox("t1", << >>)) ELSE None ]
  /\ cache = NoCache
  /\ pub = [ r \in PubIds |-> IdlePub ]
  /\ tko = [ r \in TkoIds |-> IdleTko ]
  /\ sub = [ r \in SubIds |-> IdleSub ]
  /\ poller = NoPoller
  /\ pull = [ r \in PullIds |-> IdlePull ]
  /\ push = [ r \in PushIds |-> IdlePush ]
  /\ gdoc = NoDoc
  /\ api = [ r \in ApiIds |-> IdleApi ]
  /\ rules = NoRules
  /\ tab = NoTab

NextResubmit == SubmitEvent

SpecResubmit == InitResubmit /\ [][NextResubmit]_vars

\* ---- a started game of the backend
\* The deal of POST /api/game/start that is followed: p1 VILLAGER, p2 MAFIA,
\* p3 DOCTOR, p4 DETECTIVE, so that the callers are a Villager and the Mafia.
PlayCast ==
  CHOOSE assigned \in assignRoles(BackendLobby.players) :
    /\ \A i \in 1 .. 4 : assigned[i].id = BackendLobby.players[i].id
    /\ assigned[1].role = "VILLAGER" /\ assigned[2].role = "MAFIA"
    /\ assigned[3].role = "DOCTOR"

\* The document POST /api/game/start leaves at time 0; autoAdvance is what
\* POST /api/game/settings stored in the lobby (part_006:53-57).
NightDoc(autoAdvance) ==
  [ NoDoc EXCEPT !.exists = TRUE,
      !.state = Some([ BackendLobby EXCEPT !.players = PlayCast, !.phase = "NIGHT",
                         !.currentNight = 1, !.phaseStartedAt = 0, !.version = @ + 1,
                         !.settings = [ @ EXCEPT !.autoAdvance = autoAdvance ] ]) ]

\* The night in which all but p1, the Villager, have submitted: the Mafia kill
\* p1 and the Doctor saves p1.
NightDocButOne(autoAdvance) ==
  [ NightDoc(autoAdvance) EXCEPT
      !.actions = << [ nightNumber |-> 1, playerId |-> "p2", type |-> "KILL",
                       targetPlayerId |-> "p1" ],
                     [ nightNumber |-> 1, playerId |-> "p3", type |-> "SAVE",
                       targetPlayerId |-> "p1" ],
                     [ nightNumber |-> 1, playerId |-> "p4", type |-> "INSPECT",
                       targetPlayerId |-> "p2" ] >> ]

\* The day that night ends in once p1's ritual is in and a GET resolves it.
DayDoc(autoAdvance) ==
  LET night == [ NightDocButOne(autoAdvance) EXCEPT
                   !.rituals = << [ playerId |-> "p1", nightNumber |-> 1 ] >> ]
  IN  [ night EXCEPT !.state = Some(processPhaseTransitions(night, 0)) ]

\* The voting POST /api/game/advance opens on that day.
VotingDoc(autoAdvance) ==
  LET day == DayDoc(autoAdvance)
  IN  [ day EXCEPT !.state = Some([ day.state[1] EXCEPT !.phase = "VOTING",
                                      !.phaseId = Some(<< 1, 0 >>), !.phaseStartedAt = 0,
                                      !.version = @ + 1, !.updatedAt = 0 ]) ]

\* The voting in which all but p1 have voted: two votes for p2, one for p1.
VotingDocButOne(autoAdvance) ==
  [ VotingDoc(autoAdvance) EXCEPT
      !.votes = << [ voterId |-> "p2", targetPlayerId |-> "p1", phaseId |-> Some(<< 1, 0 >>) ],
                   [ voterId |-> "p3", targetPlayerId |-> "p2", phaseId |-> Some(<< 1, 0 >>) ],
                   [ voterId |-> "p4", targetPlayerId |-> "p2", phaseId |-> Some(<< 1, 0 >>) ] >> ]

\* The snapshots the coordinator's tab starts from, as it published them: the
\* same day and the same voting, without the roles, which the tab keeps in its
\* masterRoles.
TabStates(autoAdvance) ==
  { [ doc.state[1] EXCEPT !.players = stripRoles(@) ] :
      doc \in { DayDoc(autoAdvance), VotingDoc(autoAdvance) } }

InitPlay ==
  /\ now = 0
  /\ inbox = [ p \in Players |-> Some(Inbox("t1", << >>)) ]
  /\ events = << >>
  /\ cache = NoCache
  /\ \E autoAdvance \in BOOLEAN :
       \/ /\ deployment = "backend"
          /\ games = NoGame
          /\ gdoc \in { NightDoc(autoAdvance), NightDocButOne(autoAdvance),
                         DayDoc(autoAdvance), VotingDoc(autoAdvance),
                         VotingDocButOne(autoAdvance) }
          /\ tab = NoTab
       \/ /\ deployment = "memory"
          /\ gdoc = NoDoc
          /\ \E gameState \in TabStates(autoAdvance) :
               /\ games = setState(NoGame, gameState)
               /\ tab = TabOf("p1", gameState,
                          [ id \in Players |-> PlayCast[FindPlayer(PlayCast, id)].role ])
  /\ pub = [ r \in PubIds |-> IdlePub ]
  /\ tko = [ r \in TkoIds |-> IdleTko ]
  /\ sub = [ r \in SubIds |-> IdleSub ]
  /\ poller = NoPoller
  /\ pull = [ r \in PullIds |-> IdlePull ]
  /\ push = [ r \in PushIds |-> IdlePush ]
  /\ api = [ r \in PlayIds |-> IdleApi ]
  /\ rules = NoRules

NextPlay ==
  \/ TickPlay
  \/ PollState
  \/ SubmitAction
  \/ SubmitRitual
  \/ SubmitVote
  \/ AdvanceToVoting
  \/ RestartGame
  \/ TabTick
  \/ TabClick
  \/ TabVote
  \/ TabPublished

SpecPlay == InitPlay /\ [][NextPlay]_vars

\* The coordinator's tab of that game, reached also by VOTE events that name
\* someone who is not a player.
InitStray == InitPlay /\ tab # NoTab

NextStray == TabTick \/ TabClick \/ TabVote \/ TabVoteStray \/ TabPublished

SpecStray == InitStray /\ [][NextStray]_vars

\* ---- the tab of a coordinator who took over
\* p2 took the started game over from p1 (handleTakeOver, page.tsx:1187-1198:
\* the master and version + 1).  The masterRoles of localStorage are written by
\* handleStartGame in the tab that starts the game (page.tsx:972), so in p2's
\* tab loadMasterRoles answers {} and roleMap[id] is undefined for every id.
InitHeir ==
  /\ deployment = "memory"
  /\ now = 0
  /\ inbox = [ p \in Players |-> Some(Inbox("t1", << >>)) ]
  /\ events = << >>
  /\ cache = NoCache
  /\ gdoc = NoDoc
  /\ \E autoAdvance \in BOOLEAN :
     \E gameState \in TabStates(autoAdvance) :
       LET taken == [ gameState EXCEPT !.masterPlayerId = "p2", !.version = @ + 1 ] IN
       /\ games = setState(NoGame, taken)
       /\ tab = TabOf("p2", taken, [ id \in Players |-> "" ])
  /\ pub = [ r \in PubIds |-> IdlePub ]
  /\ tko = [ r \in TkoIds |-> IdleTko ]
  /\ sub = [ r \in SubIds |-> IdleSub ]
  /\ poller = NoPoller
  /\ pull = [ r \in PullIds |-> IdlePull ]
  /\ push = [ r \in PushIds |-> IdlePush ]
  /\ api = [ r \in PlayIds |-> IdleApi ]
  /\ rules = NoRules

NextHeir == TickPlay \/ TabTick \/ TabClick \/ TabVote \/ TabPublished

SpecHeir == InitHeir /\ [][NextHeir]_vars

\* ---- a night of the coordinator's tab
\* The snapshots of the nights the coordinator's tab starts from: the first
\* night, and the second night after p1 was voted out on the first day.
NightStates(autoAdvance) ==
  LET first == [ NightDoc(autoAdvance).state[1] EXCEPT !.players = stripRoles(@) ] IN
  { first,
    [ first EXCEPT !.currentNight = 2, !.version = @ + 4,
                   !.players = [ @ EXCEPT ![1].alive = FALSE ] ] }

InitNight ==
  /\ deployment = "memory"
  /\ now = 0
  /\ inbox = [ p \in Players |-> Some(Inbox("t1", << >>)) ]
  /\ events = << >>
  /\ cache = NoCache
  /\ gdoc = NoDoc
  /\ \E autoAdvance \in BOOLEAN :
     \E gameState \in NightStates(autoAdvance) :
       /\ games = setState(NoGame, gameState)
       /\ tab = NightTabOf("p1", gameState,
                  [ id \in Players |-> PlayCast[FindPlayer(PlayCast, id)].role ])
  /\ pub = [ r \in PubIds |-> IdlePub ]
  /\ tko = [ r \in TkoIds |-> IdleTko ]
  /\ sub = [ r \in SubIds |-> IdleSub ]
  /\ poller = NoPoller
  /\ pull = [ r \in PullIds |-> IdlePull ]
  /\ push = [ r \in PushIds |-> IdlePush ]
  /\ api = [ r \in PlayIds |-> IdleApi ]
  /\ rules = NoRules

NextNight == TickPlay \/ TabAction \/ TabRitual \/ TabNightTick \/ TabSecret \/ TabPublished

SpecNight == InitNight /\ [][NextNight]_vars

\* ---- the coordinator's tab and those who join
\* The snapshots the joiners find: the lobby p1 has just created
\* (createInitialState, version 1), and the first day of the game of p1 .. p4.
JoinedStates ==
  { [ BackendLobby EXCEPT !.players = << GamePlayer("p1", TRUE, "") >>, !.version = 1 ] }
    \cup { gameState \in TabStates(FALSE) : gameState.phase = "DAY" }

InitLobby ==
  /\ deployment = "memory"
  /\ now = 0
  /\ \E gameState \in JoinedStates :
       /\ games = setState(NoGame, gameState)
       /\ tab = LobbyTabOf("p1", gameState)
       /\ inbox = [ p \in Players \cup Joiners |->
                      IF \E i \in 1 .. Len(gameState.players) : gameState.players[i].id = p
                      THEN Some(Inbox("t1", << >>)) ELSE None ]
  /\ events = << >>
  /\ cache = NoCache
  /\ gdoc = NoDoc
  /\ pub = [ r \in PubIds |-> IdlePub ]
  /\ tko = [ r \in TkoIds |-> IdleTko ]
  /\ sub = [ r \in SubIds |-> IdleSub ]
  /\ poller = NoPoller
  /\ pull = [ r \in PullIds |-> IdlePull ]
  /\ push = [ r \in PushIds |-> IdlePush ]
  /\ api = [ r \in PlayIds |-> IdleApi ]
  /\ rules = NoRules

NextLobby == LobbyJoin \/ LobbyFetch \/ LobbyHandle \/ LobbyPoll \/ LobbyPublished

SpecLobby == InitLobby /\ [][NextLobby]_vars

\* ---- a participant watching a started game
\* The snapshots a watching tab may hold: a started game in which some of the
\* players have died, coordinated by one of them.
WatchStates ==
  { [ gameState EXCEPT
        !.masterPlayerId = master,
        !.players = [ i \in 1 .. Len(gameState.players) |->
                        [ gameState.players[i] EXCEPT
                            !.alive = gameState.players[i].id \notin dead ] ] ] :
      gameState \in TabStates(FALSE),
      master \in {"p1", "p2", "p3"},
      dead \in { {}, {"p1"}, {"p1", "p2"} } }

\* The relay holds the snapshot, and the tab of one participant has just
\* polled it.
InitWatch ==
  /\ deployment = "memory"
  /\ now = 1
  /\ \E gameState \in WatchStates, playerId \in Players :
       /\ games = setState(NoGame, gameState)
       /\ tab = WatchOf(playerId, gameState, 1)
  /\ inbox = NoInbox
  /\ events = << >>
  /\ cache = NoCache
  /\ pub = [ r \in PubIds |-> IdlePub ]
  /\ tko = [ r \in TkoIds |-> IdleTko ]
  /\ sub = [ r \in SubIds |-> IdleSub ]
  /\ poller = NoPoller
  /\ pull = [ r \in PullIds |-> IdlePull ]
  /\ push = [ r \in PushIds |-> IdlePush ]
  /\ gdoc = NoDoc
  /\ api = [ r \in ApiIds |-> IdleApi ]
  /\ rules = NoRules

NextWatch == Tick \/ WatchPoll \/ WatchPollUnbatched \/ WatchPublished

SpecWatch == InitWatch /\ [][NextWatch]_vars

\* The same tab under the scheduling of the code: the clock runs, the
\* setInterval of the state poll keeps firing (page.tsx:507-508), and the relay
\* answers every publish.  No step of the coordinator's own tab is taken: it is
\* silent.
SpecWatchFair ==
  /\ SpecWatch
  /\ WF_vars(Tick) /\ WF_vars(WatchPoll) /\ WF_vars(WatchPollUnbatched)
  /\ WF_vars(WatchPublished)

\* ---- the rules of lib/game.ts, called on their own
InitRules ==
  /\ deployment = "rules"
  /\ now = 0
  /\ games = NoGame
  /\ inbox = [ p \in Players |-> NoInbox ]
  /\ events = << >>
  /\ cache = NoCache
  /\ gdoc = NoDoc
  /\ pub = [ r \in PubIds |-> IdlePub ]
  /\ tko = [ r \in TkoIds |-> IdleTko ]
  /\ sub = [ r \in SubIds |-> IdleSub ]
  /\ poller = NoPoller
  /\ pull = [ r \in PullIds |-> IdlePull ]
  /\ push = [ r \in PushIds |-> IdlePush ]
  /\ api = [ r \in ApiIds |-> IdleApi ]
  /\ tab = NoTab
  /\ \/ \E xAlive, yAlive \in BOOLEAN, k1, k2, k3 \in KillChoices, s \in SaveChoices :
          rules = [ NoRules EXCEPT !.fn = "resolveNightActions",
                                   !.players = NightCast(xAlive, yAlive),
                                   !.actions = NightActions(k1, k2, k3, s) ]
     \/ \E aAlive, eAlive \in BOOLEAN, va, vb, vc, vd, ve \in VoteChoices :
          rules = [ NoRules EXCEPT !.fn = "resolveVotes",
                                   !.players = VoteCast(aAlive, eAlive),
                                   !.votes = BallotOf("a", va) \o BallotOf("b", vb)
                                             \o BallotOf("c", vc) \o BallotOf("d", vd)
                                             \o BallotOf("e", ve) ]
     \/ \E roles \in [ 1 .. 4 -> WinRoles ], alive \in [ 1 .. 4 -> BOOLEAN ] :
          rules = [ NoRules EXCEPT !.fn = "checkWin", !.players = WinCast(roles, alive) ]
     \/ \E n \in 1 .. MaxLobby :
          rules = [ NoRules EXCEPT !.fn = "assignRoles", !.players = LobbyOf(n) ]

RulesUnchanged ==
  UNCHANGED << deployment, now, games, inbox, events, cache, gdoc, pub, tko, sub, poller,
               pull, push, api, tab >>

CallResolveNightActions ==
  /\ rules.fn = "resolveNightActions" /\ rules.out = None
  /\ rules' = [ rules EXCEPT
                  !.out = Some(resolveNightActions([ players |-> rules.players ],
                                                   rules.actions)) ]
  /\ RulesUnchanged

CallResolveVotes ==
  /\ rules.fn = "resolveVotes" /\ rules.out = None
  /\ rules' = [ rules EXCEPT
                  !.out = Some(resolveVotes([ players |-> rules.players ], rules.votes)) ]
  /\ RulesUnchanged

CallCheckWin ==
  /\ rules.fn = "checkWin" /\ rules.out = None
  /\ rules' = [ rules EXCEPT !.out = Some(checkWin(rules.players)) ]
  /\ RulesUnchanged

\* assignRoles returns one outcome of its shuffles, or throws.
CallAssignRoles ==
  /\ rules.fn = "assignRoles" /\ rules.out = None
  /\ IF assignRolesThrows(rules.players)
     THEN rules' = [ rules EXCEPT !.out = Some([ threw |-> TRUE, players |-> << >> ]) ]
     ELSE \E assigned \in assignRoles(rules.players) :
            rules' = [ rules EXCEPT !.out = Some([ threw |-> FALSE, players |-> assigned ]) ]
  /\ RulesUnchanged

NextRules ==
  \/ CallResolveNightActions
  \/ CallResolveVotes
  \/ CallCheckWin
  \/ CallAssignRoles

SpecRules == InitRules /\ [][NextRules]_vars

\* ------------------------------------------------------------ claims ----
\* C1: across PublishSnapshot requests interleaved in any way, the stored version
\* never decreases, and a publish that writes never replaces a snapshot whose
\* version is greater than or equal to its own.
C1_VersionStrictlyIncreasing ==
  [][ /\ StoredVersion' >= StoredVersion
      /\ \A r \in PubIds :
           (pub[r].pc # "done" /\ pub'[r].pc = "done" /\ pub'[r].wrote)
              => pub'[r].body[1].version > StoredVersion ]_vars

\* C2: a publish whose version is less than or equal to the version it finds
\* stored writes nothing and answers the stored snapshot with ignored=true; any
\* other publish (greater version, or nothing stored) is accepted and written.
C2_PublishOutcome ==
  \A r \in PubIds :
    pub[r].pc = "done" =>
      LET b == pub[r].body[1]
          cur == pub[r].current
      IN  IF cur # None /\ ~(b.version > cur[1].version)
          THEN pub[r].ignored /\ ~pub[r].wrote /\ pub[r].resp = cur
          ELSE /\ ~pub[r].ignored /\ pub[r].wrote
               /\ pub[r].resp # None /\ pub[r].resp[1].version = b.version
               /\ pub[r].resp[1].masterPlayerId = b.masterPlayerId

C2_Witness ==
  \E r1, r2 \in PubIds :
    /\ pub[r1].pc = "done" /\ pub[r1].wrote
    /\ pub[r2].pc = "done" /\ pub[r2].ignored
    /\ pub[r2].body[1].version = pub[r2].current[1].version

\* C3: the indexes SubmitEvent hands out within a session are at least 1 and
\* pairwise distinct, also for submissions that run concurrently, and no two
\* stored events carry the same index.
C3_IndexesDistinct ==
  /\ \A r \in SubIds : sub[r].result = "index" => sub[r].index >= 1
  /\ \A r1, r2 \in SubIds :
       (r1 # r2 /\ sub[r1].result = "index" /\ sub[r2].result = "index")
         => sub[r1].index # sub[r2].index
  /\ \A i, j \in 1 .. Len(events) : i # j => events[i].index # events[j].index

\* C4: of the submissions carrying one event id, sequential or concurrent,
\* exactly one is stored and answered with an index; every other one is answered
\* duplicated, never with an index and never with an error.
C4_DuplicateOutcome ==
  /\ \A i, j \in 1 .. Len(events) : i # j => events[i].id # events[j].id
  /\ \A r1, r2 \in SubIds :
       ( /\ r1 # r2 /\ sub[r1].pc = "done" /\ sub[r2].pc = "done"
         /\ sub[r1].event[1].id = sub[r2].event[1].id )
       => \/ sub[r1].result = "index" /\ sub[r2].result = "duplicated"
          \/ sub[r1].result = "duplicated" /\ sub[r2].result = "index"

\* C5: ListEventsAfter(i) answers exactly the stored events whose index is
\* greater than i, in ascending order of index; and a poll answered while its
\* cursor still is the largest index the poller has received hands over no
\* event the poller received before.
C5_FetchExact ==
  \A q \in PollIds :
    (poller.req[q].pc = "idle" /\ poller'.req[q].pc = "fetched") =>
      LET res == poller'.req[q].result
          after == poller.cursor
      IN  /\ poller'.req[q].after = after
          /\ \A i \in 1 .. Len(res) :
               res[i].index > after /\ \E j \in 1 .. Len(events) : events[j] = res[i]
          /\ \A j \in 1 .. Len(events) :
               events[j].index > after => \E i \in 1 .. Len(res) : res[i] = events[j]
          /\ \A i, k \in 1 .. Len(res) : i < k => res[i].index < res[k].index

C5_NoRedelivery ==
  \A q \in PollIds :
    ( /\ poller.req[q].pc = "fetched" /\ poller'.req[q].pc = "handled"
      /\ poller.req[q].after = poller.cursor )
    => \A i \in 1 .. Len(poller.req[q].result) :
         poller.req[q].result[i].id \notin poller.received

C6_Rejected(r) ==
  pull[r].pc = "done" /\ pull[r].doc # None /\ pull[r].doc[1].token # pull[r].token

C6_WrongTokenAnswer ==
  \A r \in PullIds :
    C6_Rejected(r) =>
      pull[r].result = "unauthorized" /\ pull[r].messages = << >> /\ ~pull[r].cleared

C6_WrongTokenWritesNothing ==
  \A r \in PullIds :
    (pull[r].pc # "done" /\ pull'[r].pc = "done" /\ pull'[r].doc # None
       /\ pull'[r].doc[1].token # pull'[r].token)
    => inbox' = inbox

C6_WrongToken == [] C6_WrongTokenAnswer /\ [][C6_WrongTokenWritesNothing]_vars

C6_Witness ==
  \E r \in PullIds :
    /\ C6_Rejected(r) /\ pull[r].result = "unauthorized"
    /\ pull[r].doc[1].messages # << >>
    /\ inbox[pull[r].playerId] # None
    /\ inbox[pull[r].playerId][1].messages # << >>

\* C7: no queued message is returned by two pulls of the same mailbox that both
\* present the correct token, however the two pulls interleave.
C7_NoMessageTwice ==
  \A r1, r2 \in PullIds :
    ( /\ r1 # r2 /\ pull[r1].pc = "done" /\ pull[r2].pc = "done"
      /\ pull[r1].playerId = pull[r2].playerId
      /\ pull[r1].result = "messages" /\ pull[r2].result = "messages" )
    => ~ \E i \in 1 .. Len(pull[r1].messages), j \in 1 .. Len(pull[r2].messages) :
           pull[r1].messages[i] = pull[r2].messages[j]

\* C8: whenever takeover requests by different participants have evaluated
\* their compare-and-set against the same stale (masterPlayerId, updatedAt),
\* exactly one of the requests that raced on that pair is applied and answers ok;
\* every other one answers takeover_failed and its compare-and-set leaves the
\* stored snapshot as it was.
C8_Raced(r) ==
  \/ tko[r].pc = "reply"
  \/ tko[r].pc = "done" /\ tko[r].current # None
       /\ tko[r].current[1].masterPlayerId # tko[r].playerId
       /\ tko[r].result # "master_active"

C8_ExactlyOne ==
  \A r1, r2 \in TkoIds :
    ( /\ r1 # r2 /\ C8_Raced(r1) /\ C8_Raced(r2)
      /\ tko[r1].playerId # tko[r2].playerId
      /\ tko[r1].current = tko[r2].current )
    => /\ Cardinality({ r \in TkoIds : /\ C8_Raced(r)
                                       /\ tko[r].current = tko[r1].current
                                       /\ tko[r].matched }) = 1
       /\ \A r \in {r1, r2} :
            tko[r].pc = "done" =>
              tko[r].result = (IF tko[r].matched THEN "ok" ELSE "takeover_failed")

C8_LoserWritesNothing ==
  \A r \in TkoIds :
    (tko[r].pc = "cas" /\ tko'[r].pc = "reply" /\ ~tko'[r].matched) => games' = games

C8_TakeoverRace == [] C8_ExactlyOne /\ [][C8_LoserWritesNothing]_vars

C8_Witness ==
  \E r1, r2 \in TkoIds :
    /\ tko[r1].pc = "done" /\ tko[r2].pc = "done"
    /\ tko[r1].playerId # tko[r2].playerId
    /\ tko[r1].current = tko[r2].current
    /\ tko[r1].result = "ok" /\ tko[r2].result = "takeover_failed"
    /\ StoredMaster = tko[r1].playerId

\* C9: the stored masterPlayerId changes to another participant only in a step
\* taken when the stored snapshot is older than MASTER_STALE_MS, whichever
\* operation writes it.
C9_MasterChangesOnlyWhenStale ==
  [][ (StoredMaster # "" /\ StoredMaster' # StoredMaster)
        => now - getState(games)[1].updatedAt > MASTER_STALE_MS ]_vars

\* C10: every snapshot a participant reads while the game is active (its phase
\* is not GAME_OVER) carries no role on any participant and no revealedRoles.
C10_NoLiveRoles ==
  \A r \in ApiIds :
    (api[r].pc = "done" /\ api[r].kind = "get" /\ api[r].resp # None
       /\ api[r].resp[1].phase # "GAME_OVER")
    => /\ \A i \in 1 .. Len(api[r].resp[1].players) : api[r].resp[1].players[i].role = ""
       /\ api[r].resp[1].revealedRoles = {}

\* ---- C16
\* How often the night's KILL submissions name id.
C16_Named(id) ==
  Cardinality({ i \in 1 .. Len(rules.actions) :
                  rules.actions[i].type = "KILL" /\ rules.actions[i].targetPlayerId = id })

\* The participant more KILL submissions name than any other, "" if there is none.
C16_Target ==
  LET ids == { rules.players[i].id : i \in 1 .. Len(rules.players) }
      top == { id \in ids : C16_Named(id) > 0
                            /\ \A other \in ids \ {id} : C16_Named(other) < C16_Named(id) }
  IN  IF top = {} THEN "" ELSE CHOOSE id \in top : TRUE

C16_Saved(id) ==
  \E i \in 1 .. Len(rules.actions) :
    rules.actions[i].type = "SAVE" /\ rules.actions[i].targetPlayerId = id

C16_Dies ==
  /\ C16_Target # ""
  /\ \E i \in 1 .. Len(rules.players) :
       /\ rules.players[i].id = C16_Target
       /\ rules.players[i].alive
       /\ rules.players[i].role # "MAFIA"
  /\ ~C16_Saved(C16_Target)

\* C16: resolveNightActions sets the alive flag of exactly one participant to
\* false, the one more KILL submissions name than any other, and reports that
\* kill, exactly when that participant is alive, is not Mafia and is not the
\* target of the SAVE action; in every other case (the top targets tie, the
\* target is saved, is Mafia or is dead) it changes no player and reports no kill.
C16_NightKill ==
  (rules.fn = "resolveNightActions" /\ rules.out # None) =>
    LET out == rules.out[1] IN
      IF C16_Dies
      THEN /\ out.killedPlayerId = C16_Target
           /\ out.updatedPlayers =
                [ i \in 1 .. Len(rules.players) |->
                    IF rules.players[i].id = C16_Target
                    THEN [ rules.players[i] EXCEPT !.alive = FALSE ] ELSE rules.players[i] ]
           /\ Cardinality({ i \in 1 .. Len(rules.players) :
                              out.updatedPlayers[i] # rules.players[i] }) = 1
      ELSE /\ out.killedPlayerId = ""
           /\ out.updatedPlayers = rules.players

\* Three Mafia submitted x, x, y and x, alive and unsaved, died.
C16_Witness ==
  /\ rules.fn = "resolveNightActions" /\ rules.out # None
  /\ C16_Named("x") = 2 /\ C16_Named("y") = 1
  /\ rules.out[1].killedPlayerId = "x"
  /\ ~rules.out[1].updatedPlayers[5].alive

\* ---- C17
C17_Alive(id) ==
  \E i \in 1 .. Len(rules.players) : rules.players[i].id = id /\ rules.players[i].alive

\* The votes for id cast by voters who are alive.
C17_Votes(id) ==
  Cardinality({ i \in 1 .. Len(rules.votes) :
                  rules.votes[i].targetPlayerId = id /\ C17_Alive(rules.votes[i].voterId) })

\* The targets with a strict plurality of the votes of the living: at most one.
C17_Plurality ==
  LET ids == { rules.votes[i].targetPlayerId : i \in 1 .. Len(rules.votes) }
  IN  { id \in ids : C17_Votes(id) > 0
                     /\ \A other \in ids \ {id} : C17_Votes(other) < C17_Votes(id) }

\* C17: resolveVotes counts only the votes of voters who are alive; the target
\* with a strict plurality of them is eliminated, and when there is none (the
\* top targets tie, or no valid vote exists) nobody is eliminated, no alive
\* flag changes and tie is true.
C17_VoteCount ==
  (rules.fn = "resolveVotes" /\ rules.out # None) =>
    LET out == rules.out[1] IN
      IF C17_Plurality # {}
      THEN /\ out.eliminatedPlayerId \in C17_Plurality
           /\ ~out.tie
           /\ out.updatedPlayers =
                [ i \in 1 .. Len(rules.players) |->
                    IF rules.players[i].id = out.eliminatedPlayerId
                    THEN [ rules.players[i] EXCEPT !.alive = FALSE ] ELSE rules.players[i] ]
      ELSE /\ out.eliminatedPlayerId = ""
           /\ out.tie
           /\ out.updatedPlayers = rules.players

\* b is eliminated by two votes against one, while the two votes of the dead
\* for a are not counted.
C17_Witness ==
  /\ rules.fn = "resolveVotes" /\ rules.out # None
  /\ ~C17_Alive("a") /\ ~C17_Alive("e")
  /\ Cardinality({ i \in 1 .. Len(rules.votes) :
                     rules.votes[i].targetPlayerId = "a"
                     /\ rules.votes[i].voterId \in {"a", "e"} }) = 2
  /\ C17_Votes("b") = 2 /\ C17_Votes("a") = 1
  /\ rules.out[1].eliminatedPlayerId = "b"
  /\ ~rules.out[1].updatedPlayers[2].alive

\* ---- C18
C18_AliveMafia ==
  Cardinality({ i \in 1 .. Len(rules.players) :
                  rules.players[i].alive /\ rules.players[i].role = "MAFIA" })

C18_AliveOthers ==
  Cardinality({ i \in 1 .. Len(rules.players) :
                  rules.players[i].alive /\ rules.players[i].role # "MAFIA" })

\* C18: checkWin returns VILLAGERS exactly when no Mafia is alive, otherwise
\* MAFIA exactly when the alive Mafia are at least as many as the alive
\* non-Mafia, and otherwise no winner.
C18_Winner ==
  (rules.fn = "checkWin" /\ rules.out # None) =>
    /\ (rules.out[1] = "VILLAGERS") <=> (C18_AliveMafia = 0)
    /\ (rules.out[1] = "MAFIA") <=> (C18_AliveMafia # 0 /\ C18_AliveMafia >= C18_AliveOthers)
    /\ (rules.out[1] = "") <=> (C18_AliveMafia # 0 /\ C18_AliveMafia < C18_AliveOthers)

\* Parity: one Mafia and one other alive, and the Mafia win.
C18_Witness ==
  /\ rules.fn = "checkWin" /\ rules.out = Some("MAFIA")
  /\ C18_AliveMafia = 1 /\ C18_AliveOthers = 1

\* ---- C19
\* The breakpoint table: 4-6 -> 1, 7-9 -> 2, 10-12 -> 2, 13-15 -> 3, 16-18 -> 3,
\* 19-21 -> 4, beyond -> max(4, floor(n / 5.5)).
C19_Table(n) ==
  IF n \in 4 .. 6 THEN 1
  ELSE IF n \in 7 .. 12 THEN 2
  ELSE IF n \in 13 .. 18 THEN 3
  ELSE IF n \in 19 .. 21 THEN 4
  ELSE IF (10 * n) \div 55 > 4 THEN (10 * n) \div 55 ELSE 4

C19_With(assigned, role) ==
  Cardinality({ i \in 1 .. Len(assigned) : assigned[i].role = role })

\* C19: for n >= 4 and every outcome of the two shuffles, assignRoles gives
\* each participant exactly one role: the table's number of Mafia, one Doctor,
\* one Detective and Villagers for the rest, and no outcome of the shuffles
\* deals zero Mafia; for n < 4 it throws and assigns nothing.
C19_Roles ==
  (rules.fn = "assignRoles" /\ rules.out # None) =>
    LET n == Len(rules.players) IN
      IF n < 4 THEN rules.out[1].threw /\ rules.out[1].players = << >>
      ELSE LET assigned == rules.out[1].players IN
             /\ ~rules.out[1].threw
             /\ Len(assigned) = n
             /\ \A i \in 1 .. n :
                  Cardinality({ j \in 1 .. n : assigned[j].id = rules.players[i].id }) = 1
             /\ C19_With(assigned, "MAFIA") = C19_Table(n)
             /\ C19_With(assigned, "DOCTOR") = 1
             /\ C19_With(assigned, "DETECTIVE") = 1
             /\ C19_With(assigned, "VILLAGER") = n - C19_Table(n) - 2
             /\ \A order \in ShuffleOrders(n), deal \in ShuffleDeals(Len(RolesArray(n))) :
                  C19_With(DealtBy(rules.players, order, deal), "MAFIA") > 0

\* Twenty-eight players, beyond the table: five Mafia.
C19_Witness ==
  /\ rules.fn = "assignRoles" /\ rules.out # None
  /\ Len(rules.players) = 28
  /\ C19_With(rules.out[1].players, "MAFIA") = 5
  /\ rules.out[1].players[1].role = "VILLAGER"

\* ---- C13
\* C13: the stored phase leaves NIGHT only when readiness holds, that is when
\* every alive player's action or ritual of the night is recorded (the backend
\* has no forced resolution); elapsed time alone never resolves the night.
C13_NightLeftOnlyWhenReady ==
  [][ ( /\ gdoc.exists
        /\ gdoc.state[1].phase = "NIGHT"
        /\ gdoc'.state[1].phase # "NIGHT" )
      => allNightActionsSubmitted(gdoc.state[1], gdoc.actions, gdoc.rituals) ]_vars

\* ---- C20
\* C20: a night action submitted while the stored snapshot is not in phase
\* NIGHT is rejected at submission: it is not stored and answered with the
\* index it was stored under.
C20_OutOfPhaseRejected ==
  \A r \in SubIds :
    ( /\ sub[r].pc = "done"
      /\ sub[r].event[1].type = "ACTION"
      /\ \A q \in SubIds : sub[q].pc \in {"idle", "done"}
      /\ (getState(games) = None \/ getState(games)[1].phase # "NIGHT") )
    => sub[r].result # "index"

\* ---- C11
C11_Edges ==
  { << "LOBBY", "NIGHT" >>, << "NIGHT", "DAY" >>, << "DAY", "VOTING" >>,
    << "VOTING", "RESOLUTION" >>, << "RESOLUTION", "NIGHT" >>,
    << "RESOLUTION", "GAME_OVER" >> }

\* C11: the phase of the stored state changes only along LOBBY -> NIGHT,
\* NIGHT -> DAY, DAY -> VOTING, VOTING -> RESOLUTION, RESOLUTION -> NIGHT and
\* RESOLUTION -> GAME_OVER, and from GAME_OVER to LOBBY by the write of a
\* restart request.
C11_PhaseEdges ==
  [][ (gdoc.exists /\ gdoc'.state[1].phase # gdoc.state[1].phase) =>
        \/ << gdoc.state[1].phase, gdoc'.state[1].phase >> \in C11_Edges
        \/ /\ gdoc.state[1].phase = "GAME_OVER" /\ gdoc'.state[1].phase = "LOBBY"
           /\ \E r \in PlayIds : /\ api[r].kind = "restart" /\ api[r].pc = "write"
                                 /\ api'[r].pc = "send" ]_vars

\* ---- C12
\* The step is the write of a restart request.
C12_Restarting ==
  \E r \in PlayIds : api[r].kind = "restart" /\ api[r].pc = "write" /\ api'[r].pc = "send"

\* C12: a stored phase GAME_OVER stays GAME_OVER in every step but the write of
\* a restart; a restart writes only onto GAME_OVER, and what it leaves has
\* phase LOBBY, status ACTIVE, currentNight 0, no winner, no revealed roles,
\* every player alive and without a role, and no recorded action, ritual or vote.
C12_GameOverUntilRestart ==
  [][ /\ (gdoc.exists /\ gdoc.state[1].phase = "GAME_OVER" /\ ~C12_Restarting)
           => gdoc'.state[1].phase = "GAME_OVER"
      /\ C12_Restarting =>
           /\ gdoc.state[1].phase = "GAME_OVER"
           /\ gdoc'.state[1].phase = "LOBBY"
           /\ gdoc'.state[1].status = "ACTIVE"
           /\ gdoc'.state[1].currentNight = 0
           /\ gdoc'.state[1].winner = ""
           /\ gdoc'.state[1].revealedRoles = {}
           /\ \A i \in 1 .. Len(gdoc'.state[1].players) :
                gdoc'.state[1].players[i].alive /\ gdoc'.state[1].players[i].role = ""
           /\ gdoc'.actions = << >> /\ gdoc'.rituals = << >> /\ gdoc'.votes = << >> ]_vars

\* ---- C15
\* C15: every step that takes the stored phase into VOTING stores a phaseId
\* that differs from the phaseId stored before, the id of the round before,
\* and from the phaseId of every recorded vote; and a GET that resolves a
\* voting counts the votes of the stored phaseId and no other.
C15_FreshPhaseId ==
  [][ /\ ( /\ gdoc.exists
           /\ gdoc.state[1].phase # "VOTING" /\ gdoc'.state[1].phase = "VOTING" ) =>
           /\ gdoc'.state[1].phaseId # None
           /\ gdoc'.state[1].phaseId # gdoc.state[1].phaseId
           /\ \A i \in 1 .. Len(gdoc.votes) : gdoc.votes[i].phaseId # gdoc'.state[1].phaseId
      /\ \A r \in PlayIds :
           ( /\ gdoc.exists
             /\ api[r].pc = "idle" /\ api'[r].kind = "get"
             /\ gdoc.state[1].phase = "VOTING"
             /\ api'[r].next # None /\ api'[r].next[1].lastVoteResult # gdoc.state[1].lastVoteResult )
           => api'[r].next[1].lastVoteResult[1].eliminatedPlayerId =
                resolveVotes(gdoc.state[1],
                  SelectSeq(gdoc.votes, LAMBDA v : v.phaseId = gdoc.state[1].phaseId)
                ).eliminatedPlayerId ]_vars

\* ---- C14
\* The time since phaseStartedAt exceeds the duration configured for the phase.
C14_TimedOut(state) ==
  /\ state.phase \in {"DAY", "VOTING"}
  /\ now - state.phaseStartedAt > 1000 * getPhaseDurationSeconds(state.phase, state.settings)

\* What a GET /api/game/state arriving now computes from the stored document.
C14_Backend ==
  gdoc.exists =>
    LET state == gdoc.state[1]
        polled == processPhaseTransitions(gdoc, now)
    IN  /\ (state.settings.autoAdvance /\ C14_TimedOut(state) /\ state.phase = "DAY")
             => polled.phase = "VOTING" /\ polled.phaseStartedAt = now
        /\ (state.settings.autoAdvance /\ C14_TimedOut(state) /\ state.phase = "VOTING")
             => polled.phase \in {"NIGHT", "GAME_OVER"} /\ polled.lastVoteResult # None
        /\ (~state.settings.autoAdvance /\ polled.phase # state.phase)
             => \/ /\ state.phase = "NIGHT"
                   /\ allNightActionsSubmitted(state, gdoc.actions, gdoc.rituals)
                \/ /\ state.phase = "VOTING"
                   /\ allVotesSubmitted(state, gdoc.votes)

\* What a tick of the coordinator's tab running now posts.
C14_Tab ==
  tab # NoTab =>
    LET t == tab[1]
        gameState == t.gameState
        ticked == tick(t, now)
        posted == ticked.posting[Len(ticked.posting)]
    IN  /\ (isMaster(t) /\ gameState.settings.autoAdvance /\ C14_TimedOut(gameState))
             => /\ Len(ticked.posting) = Len(t.posting) + 1
                /\ posted.version = gameState.version + 1
                /\ posted.phaseStartedAt = now
                /\ IF gameState.phase = "DAY" THEN posted.phase = "VOTING"
                   ELSE posted.phase \in {"RESOLUTION", "GAME_OVER"}
                        /\ posted.lastVoteResult # None
        /\ ~gameState.settings.autoAdvance => ticked = t

C14_TabResolved ==
  /\ tab # NoTab
  /\ tab[1].last = "answer"
  /\ tab[1].gameState.phase = "RESOLUTION"
  /\ tab[1].gameState.lastVoteResult # None
  /\ tab[1].gameState.lastVoteResult[1].tie
  /\ getState(games) = Some(tab[1].gameState)

\* ---- C21
\* C21: the backend's document never holds two actions of one player for one
\* night, nor two votes of one voter for one phaseId: the second submission
\* is answered action_already_submitted / already_voted and records nothing,
\* also when the two requests overlap.
C21_OnePerRound ==
  gdoc.exists =>
    /\ \A i, j \in 1 .. Len(gdoc.actions) :
         ( /\ gdoc.actions[i].playerId = gdoc.actions[j].playerId
           /\ gdoc.actions[i].nightNumber = gdoc.actions[j].nightNumber ) => i = j
    /\ \A i, j \in 1 .. Len(gdoc.votes) :
         ( /\ gdoc.votes[i].voterId = gdoc.votes[j].voterId
           /\ gdoc.votes[i].phaseId = gdoc.votes[j].phaseId ) => i = j

\* ---- C22
\* C22: when a publish is accepted and stored, the snapshot GET /api/relay/state
\* reads back right after the write equals the published body in every field
\* but updatedAt.
C22_RoundTrip ==
  [][ \A r \in PubIds :
        (~pub[r].wrote /\ pub'[r].wrote) =>
          LET body == pub'[r].body[1]
              read == getState(games')
          IN  /\ read # None
              /\ read[1].version = body.version
              /\ read[1].masterPlayerId = body.masterPlayerId
              /\ read[1].phase = body.phase
              /\ read[1].players = body.players ]_vars

\* ---- C23
\* The message is among the elements of the sequence.
C23_In(m, messages) == \E i \in 1 .. Len(messages) : messages[i] = m

\* C23: a secret message whose push was acknowledged is never lost: it is
\* still queued in the mailbox, or a pull with the correct token has copied it
\* and returns it.
C23_AtLeastOnce ==
  \A r \in PushIds :
    (push[r].pc = "done" /\ push[r].result = "ok") =>
      LET p == push[r].playerId
          m == push[r].message
      IN  \/ inbox[p] # None /\ C23_In(m, inbox[p][1].messages)
          \/ \E q \in PullIds :
               /\ pull[q].playerId = p
               /\ \/ pull[q].pc = "clear"
                  \/ pull[q].pc = "done" /\ pull[q].result = "messages"
               /\ C23_In(m, pull[q].messages)

\* ---- C24
\* C24: a step of a submit whose event id was stored before the call began
\* leaves the event log, the session's nextEventIndex and every inbox's
\* registration (its existence and its token) as they were.
C24_DuplicateIsNoOp ==
  [][ \A r \in SubIds :
        (sub'[r] # sub[r] /\ sub'[r].event[1].id = Resubmitted) =>
          /\ events' = events
          /\ games'.nextEventIndex = games.nextEventIndex
          /\ \A p \in Players :
               /\ (inbox'[p] = None) <=> (inbox[p] = None)
               /\ inbox[p] # None => inbox'[p][1].token = inbox[p][1].token ]_vars

\* ---- C25
\* The KILL and SAVE targets recorded for the night the state is in.
C25_TargetsOfNight(doc, type) ==
  { doc.actions[i].targetPlayerId :
      i \in { j \in 1 .. Len(doc.actions) :
                /\ doc.actions[j].nightNumber = doc.state[1].currentNight
                /\ doc.actions[j].type = type } }

\* What a poll arriving now resolves a night to names only targets of actions
\* recorded for that night.
C25_OnlyThisNight ==
  (gdoc.exists /\ gdoc.state[1].phase = "NIGHT") =>
    LET polled == processPhaseTransitions(gdoc, now) IN
      (polled.phase # "NIGHT" /\ polled.lastResolution # None) =>
        /\ polled.lastResolution[1].killedPlayerId
             \in C25_TargetsOfNight(gdoc, "KILL") \cup {""}
        /\ polled.lastResolution[1].savedPlayerId
             \in C25_TargetsOfNight(gdoc, "SAVE") \cup {""}

\* C25: every step that takes the stored phase into NIGHT raises currentNight
\* by exactly 1, and the resolution of a night counts only what was recorded
\* with that night's number.
C25_NightCounts ==
  [][ /\ C25_OnlyThisNight
      /\ ( /\ gdoc.exists
           /\ gdoc.state[1].phase # "NIGHT" /\ gdoc'.state[1].phase = "NIGHT" )
         => gdoc'.state[1].currentNight = gdoc.state[1].currentNight + 1 ]_vars

\* ---- C26
\* The living players of the stored state whose role is among the given ones.
C26_Alive(roles) ==
  { gdoc.state[1].players[i].id :
      i \in { j \in 1 .. Len(gdoc.state[1].players) :
                /\ gdoc.state[1].players[j].alive
                /\ gdoc.state[1].players[j].role \in roles } }

\* Every living Mafia, Doctor and Detective has an action recorded for the
\* current night.
C26_ActionsIn ==
  \A id \in C26_Alive({"MAFIA", "DOCTOR", "DETECTIVE"}) :
    \E i \in 1 .. Len(gdoc.actions) :
      /\ gdoc.actions[i].playerId = id
      /\ gdoc.actions[i].nightNumber = gdoc.state[1].currentNight

\* Every other living player has a ritual confirmation recorded for the
\* current night.
C26_RitualsIn ==
  \A id \in C26_Alive({"VILLAGER", ""}) :
    \E i \in 1 .. Len(gdoc.rituals) :
      /\ gdoc.rituals[i].playerId = id
      /\ gdoc.rituals[i].nightNumber = gdoc.state[1].currentNight

\* The night timer of the stored state has not run out.
C26_InTime ==
  now - gdoc.state[1].phaseStartedAt < 1000 * gdoc.state[1].settings.nightSeconds

C27_AllAliveVoted(state, votes) ==
  \A i \in 1 .. Len(state.players) :
    state.players[i].alive =>
      \E j \in 1 .. Len(votes) :
        /\ votes[j].voterId = state.players[i].id
        /\ votes[j].phaseId = state.phaseId

\* The voting time of the state has not run out.
C27_InTime(state) ==
  now - state.phaseStartedAt < 1000 * state.settings.votingSeconds

\* A GET /api/game/state arriving within the voting time resolves the voting
\* only when every living player has a recorded vote.
C27_Backend ==
  ( /\ gdoc.exists /\ gdoc.state[1].phase = "VOTING" /\ C27_InTime(gdoc.state[1])
    /\ processPhaseTransitions(gdoc, now).phase # "VOTING" )
  => C27_AllAliveVoted(gdoc.state[1], gdoc.votes)

\* A VOTE event handled by the coordinator's tab makes it post a resolution
\* only when, with this vote, every living player has a recorded vote.
C27_Tab ==
  (tab # NoTab /\ tab[1].gameState.phase = "VOTING" /\ tab[1].gameState.phaseId # None) =>
    \A voterId \in TabVoters : \A targetPlayerId \in TabTargets(voterId) :
      LET t == tab[1]
          vote == [ voterId |-> voterId, targetPlayerId |-> targetPlayerId,
                    phaseId |-> t.gameState.phaseId ]
      IN  Len(handleVote(t, vote, now).posting) > Len(t.posting)
            => C27_AllAliveVoted(t.gameState, Append(t.votes, vote))

\* C27: a voting is resolved before its timeout only if every living
\* participant has a recorded vote for the current phaseId; the votes of dead
\* or unknown participants do not make it ready.
C27_ResolvedEarlyOnlyWhenAllVoted == C27_Backend /\ C27_Tab

\* ---- C28
\* The smallest id, in the order of sort(), among the living players.
C28_SmallestAlive(players) ==
  SortedFirst(SelectSeq(players, LAMBDA p : p.alive))

\* The tab has just handed relaySetState a snapshot that names its own
\* participant coordinator.
C28_Attempts ==
  /\ Len(tab'[1].posting) = Len(tab[1].posting) + 1
  /\ tab'[1].posting[Len(tab'[1].posting)].masterPlayerId = tab[1].playerId

C29_TookOver(q) ==
  /\ tko[q].matched
  /\ \A q2 \in TkoIds :
       (tko[q2].matched /\ q2 # q)
         => tko[q2].current[1].version < tko[q].current[1].version

\* The body is what the coordinator of snapshot `held` publishes from it.
C29_ComputedFrom(body, held) ==
  /\ body.masterPlayerId = held.masterPlayerId
  /\ body.version = held.version + 1

\* C29: once B's takeover is applied, a publish that the former coordinator A
\* computed from the snapshot of before the takeover, and that the store takes
\* up afterwards, is ignored, and its response names B the coordinator.
C29_OldCoordinatorDemoted ==
  [][ \A r \in PubIds, q \in TkoIds :
        ( /\ C29_TookOver(q)
          /\ pub[r].pc = "idle" /\ pub'[r].pc # "idle"
          /\ C29_ComputedFrom(pub'[r].body[1], tko[q].current[1]) )
        => /\ pub'[r].ignored
           /\ pub'[r].resp # None
           /\ pub'[r].resp[1].masterPlayerId = tko[q].playerId ]_vars

\* ---- C30
\* C30: whatever the interleaving of the backend's requests, no write lowers
\* the version of the stored session state, and none but a restart takes the
\* session back to an earlier night.
C30_VersionNeverDecreases ==
  [][ (gdoc.exists /\ gdoc'.exists)
        => /\ gdoc'.state[1].version >= gdoc.state[1].version
           /\ gdoc.state[1].phase # "GAME_OVER"
                => gdoc'.state[1].currentNight >= gdoc.state[1].currentNight ]_vars

\* ---- C31
\* The actions without the KILLs of those who are dead or not Mafia.
C31_OfAliveMafia(players, actions) ==
  SelectSeq(actions, LAMBDA a :
    a.type = "KILL" =>
      LET k == FindPlayer(players, a.playerId)
      IN  k # 0 /\ players[k].alive /\ players[k].role = "MAFIA")

\* C31: the player a night resolution of the coordinator kills is the one it
\* would kill had it been given only the KILL actions of Mafia who are alive.
C31_KillByAliveMafia ==
  tab # NoTab =>
    \A i \in 1 .. Len(tab[1].resolving) :
      LET call == tab[1].resolving[i]
          players == withRoles(call.gameState.players, tab[1].roles)
      IN  call.result.killedPlayerId =
            resolveNightActions([ players |-> players ],
                                C31_OfAliveMafia(players, call.actions)).killedPlayerId

\* ---- C32
\* C32: an INSPECTION_RESULT lies only in the mailbox of the Detective, the
\* role it tells is the role the coordinator assigned to the target, and the
\* stored snapshot tells no role.
C32_OnlyToDetective ==
  (tab # NoTab /\ getState(games) # None) =>
    /\ \A p \in Players :
         inbox[p] # None =>
           \A i \in 1 .. Len(inbox[p][1].messages) :
             LET message == inbox[p][1].messages[i] IN
             message.type = "INSPECTION_RESULT" =>
               /\ tab[1].roles[p] = "DETECTIVE"
               /\ message.targetRole = tab[1].roles[message.targetPlayerId]
    /\ \A i \in 1 .. Len(getState(games)[1].players) :
         getState(games)[1].players[i].role = ""

\* ---- C33
\* C33: every stored event has either been received by the poller or carries
\* an index above the poller's cursor, so that a later poll returns it.
C33_NoEventBehindCursor ==
  \A i \in 1 .. Len(events) :
    events[i].id \in poller.received \/ events[i].index > poller.cursor

\* ---- C34
\* The coordinator's tab has nothing left to do: no poll and no publish is in
\* flight, it shows the stored snapshot, and its cursor is past every event.
C34_Settled ==
  /\ tab[1].fetched = None
  /\ tab[1].posting = << >>
  /\ tab[1].gameState = getState(games)[1]
  /\ \A i \in 1 .. Len(events) : events[i].index <= tab[1].eventCursor

\* C34: once the coordinator of a lobby has handled the stored events and its
\* publishes are answered, everyone whose JOIN is stored is a player of the
\* stored snapshot; no later step of the coordinator would add them.
C34_JoinersAppear ==
  (tab # NoTab /\ getState(games) # None /\ getState(games)[1].phase = "LOBBY"
     /\ C34_Settled)
    => \A i \in 1 .. Len(events) :
         events[i].type = "JOIN" =>
           \E j \in 1 .. Len(getState(games)[1].players) :
             getState(games)[1].players[j].id = events[i].playerId

\* ---- C35
\* C35: the token a participant's inbox is registered with is never replaced.
C35_TokenKept ==
  [][ \A p \in Players :
        inbox[p] # None
          => inbox'[p] # None /\ inbox'[p][1].token = inbox[p][1].token ]_vars

\* ---- C36
\* From players `before` to players `after` nobody comes back to life and at
\* most one player dies.
C36_OnlyOneDies(before, after) ==
  /\ Len(after) = Len(before)
  /\ \A i \in 1 .. Len(before) : after[i].alive => before[i].alive
  /\ Cardinality({ i \in 1 .. Len(before) : before[i].alive /\ ~after[i].alive }) <= 1

\* The step is the write of POST /api/game/restart.
C36_Restarts ==
  \E r \in PlayIds : api[r].kind = "restart" /\ api[r].pc = "write" /\ api'[r].pc = "send"

\* C36: but for a restart, no write of the stored state of a started game
\* brings a player back to life or takes the life of more than one player.
C36_DeadStayDead ==
  [][ /\ (gdoc.exists /\ gdoc'.exists /\ ~C36_Restarts)
        => C36_OnlyOneDies(gdoc.state[1].players, gdoc'.state[1].players)
      /\ (tab # NoTab /\ getState(games) # None /\ getState(games') # None)
        => C36_OnlyOneDies(getState(games)[1].players, getState(games')[1].players) ]_vars

\* ---- C37
\* The players of a snapshot with the roles assigned at the start of the game.
C37_Assigned(players) ==
  [ i \in 1 .. Len(players) |->
      [ players[i] EXCEPT !.role = PlayCast[FindPlayer(PlayCast, players[i].id)].role ] ]

\* C37: the stored snapshot names the Villagers winners only if no assigned
\* Mafia is alive, and the Mafia only if the alive Mafia are at least as many
\* as the other alive players.
C37_WinnerByAssignment ==
  (tab # NoTab /\ getState(games) # None) =>
    LET state == getState(games)[1]
        players == C37_Assigned(state.players)
        mafia == getRoleCount(players, "MAFIA")
        others == Len(getAlivePlayers(players)) - mafia
    IN  /\ state.winner = "VILLAGERS" => mafia = 0
        /\ state.winner = "MAFIA" => mafia >= others

\* ---- C38
\* C38: while the coordinator is silent and another participant's tab keeps
\* polling, the stored snapshot eventually names a different coordinator.
C38_SilentCoordinatorReplaced ==
  \A m \in Players :
    (tab # NoTab /\ tab[1].playerId # m /\ StoredMaster = m) ~> (StoredMaster # m)

\* ---- C39
\* A vote result that names an eliminated player names a player of `before`
\* who was alive, and who is dead in `after`.
C39_Eliminated(result, before, after) ==
  (result.eliminatedPlayerId # "" /\ ~result.tie) =>
    LET k == FindPlayer(before, result.eliminatedPlayerId) IN
    /\ k # 0
    /\ before[k].alive
    /\ FindPlayer(after, result.eliminatedPlayerId) # 0
    /\ ~after[FindPlayer(after, result.eliminatedPlayerId)].alive

\* C39: a vote resolution that the coordinator's tab publishes, or that a GET
\* of the backend saves, eliminates a player who was alive and is dead now.
C39_EliminatedWasAlive ==
  [][ /\ (tab # NoTab /\ tab' # NoTab /\ Len(tab'[1].posting) > Len(tab[1].posting))
        => LET next == tab'[1].posting[Len(tab'[1].posting)] IN
           (tab[1].gameState.phase = "VOTING" /\ next.lastVoteResult # None
              /\ next.phase \in {"RESOLUTION", "GAME_OVER"})
             => C39_Eliminated(next.lastVoteResult[1], tab[1].gameState.players,
                               next.players)
      /\ (gdoc.exists /\ gdoc'.exists /\ gdoc.state[1].phase = "VOTING"
            /\ gdoc'.state[1].phase # "VOTING" /\ gdoc'.state[1].lastVoteResult # None)
        => C39_Eliminated(gdoc'.state[1].lastVoteResult[1], gdoc.state[1].players,
                          gdoc'.state[1].players) ]_vars

\* ---- C40
\* The ids of the participants of a snapshot
ParticipantIds(gameState) ==
  { gameState.players[i].id : i \in 1 .. Len(gameState.players) }

\* C40: while the stored snapshot is not in LOBBY, a step of the session (a
\* JOIN that arrives, its handling by the coordinator's tab, what the tab
\* publishes) leaves the participants and the phase of the snapshot as they
\* were.
C40_JoinOnlyInLobby ==
  [][ (getState(games) # None /\ getState(games') # None
         /\ getState(games)[1].phase # "LOBBY")
      => /\ ParticipantIds(getState(games')[1]) = ParticipantIds(getState(games)[1])
         /\ getState(games')[1].phase = getState(games)[1].phase ]_vars

====
